---- MODULE Spec2Model ----
(***************************************************************************)
(* kyev: an in-memory key/value server with TTLs and WATCH/MULTI/EXEC      *)
(* transactions.  The model follows server/src/main.rs (dispatcher,        *)
(* transaction executor, expiration tasks), server/src/store.rs (keyed     *)
(* store), server/src/transaction.rs (queue) and server/src/command.rs     *)
(* (the parsed Command).                                                   *)
(*                                                                         *)
(* A Rust String is a sequence of one-character strings, Option<T> is the  *)
(* empty sequence (None) or a one-element sequence (Some(x)), and every    *)
(* timestamp and duration is a number of milliseconds.                     *)
(***************************************************************************)
EXTENDS Integers, Sequences, FiniteSets, Bags, TLC

VARIABLES
    STORE,        \* main.rs:21  the process-wide Store behind the RwLock
    writer,       \* main.rs:21  the task holding the RwLock for writing, if any
    now,          \* the clock read by PrimitiveDateTime::now() and task::sleep
    pc,           \* per connection: where its connection_loop task stands
    transaction,  \* main.rs:59  per connection: Option<Transaction>
    watch,        \* main.rs:60  per connection: Vec<WatchKey>
    running,      \* main.rs:171 per connection: the drained queue still to replay
    results,      \* main.rs:171 per connection: the responses collected by EXEC
    reply,        \* main.rs:142 per connection: the last response written
    timers,       \* main.rs:227 the spawned expiration tasks still asleep
    process,      \* "up", or "aborted" once a panic has aborted the process
    script,       \* the requests still to arrive, when the clients follow a scenario
    string_buf,   \* main.rs:58 per connection: the lines read and not yet decoded
    event         \* the step taken last: who took it, what it handled

vars == <<STORE, writer, now, pc, transaction, watch, running, results, reply,
          timers, process, script, string_buf, event>>

-----------------------------------------------------------------------------
(* Bounds of the model.                                                    *)

\* The clock advances at most this many times.
MaxTicks == 2
\* A transaction queue holds at most this many commands.
MaxQueue == 2
\* A watch list holds at most this many entries.
MaxWatch == 2
\* At most this many expiration tasks are asleep at once.
MaxTimers == 2
\* At most this many client ids are handed out.
MaxClients == 4
\* A SET carries at most this many tokens after its value.
MaxOpts == 3
\* A command is sent with at most this many arguments.
MaxArgs == 4

\* main.rs:253  milliseconds per second (ttl_sec * 1000)
MsPerSec == 1000
\* One step of the clock: half a second, so that sub-second times exist.
TickMs == MsPerSec \div 2
MaxNow == MaxTicks * TickMs

-----------------------------------------------------------------------------
(* Option<T> and strings.                                                  *)

None == <<>>
Some(x) == <<x>>
IsSome(o) == o # <<>>
Unwrap(o) == o[1]

Digits == <<"0", "1", "2", "3", "4", "5", "6", "7", "8", "9">>
IsDigit(c) == \E i \in 1..10 : Digits[i] = c
DigitVal(c) == (CHOOSE i \in 1..10 : Digits[i] = c) - 1

\* The value of a non-empty sequence of decimal digits, None when a
\* character is not a digit.
RECURSIVE ParseDigits(_, _)
ParseDigits(s, acc) ==
    IF s = <<>> THEN Some(acc)
    ELSE IF ~IsDigit(Head(s)) THEN None
    ELSE ParseDigits(Tail(s), acc * 10 + DigitVal(Head(s)))

\* str::parse::<i64>: an optional sign, then at least one digit.
ParseI64(s) ==
    IF s = <<>> THEN None
    ELSE IF Head(s) = "-" THEN
        IF Tail(s) = <<>> THEN None
        ELSE LET d == ParseDigits(Tail(s), 0) IN
             IF IsSome(d) THEN Some(0 - Unwrap(d)) ELSE None
    ELSE IF Head(s) = "+" THEN
        IF Tail(s) = <<>> THEN None ELSE ParseDigits(Tail(s), 0)
    ELSE ParseDigits(s, 0)

\* str::parse::<u64>: an optional plus sign, then at least one digit.
ParseU64(s) ==
    IF s = <<>> THEN None
    ELSE IF Head(s) = "+" THEN
        IF Tail(s) = <<>> THEN None ELSE ParseDigits(Tail(s), 0)
    ELSE ParseDigits(s, 0)

\* i64::to_string: the decimal rendering.
RECURSIVE NatToString(_)
NatToString(n) ==
    IF n < 10 THEN <<Digits[n + 1]>>
    ELSE NatToString(n \div 10) \o <<Digits[(n % 10) + 1]>>

IntToString(i) == IF i < 0 THEN <<"-">> \o NatToString(0 - i) ELSE NatToString(i)

-----------------------------------------------------------------------------
(* resp::Value, as the dispatcher builds it.                               *)

simple_string(s) == [t |-> "SimpleString", s |-> s]
bulk_string(s) == [t |-> "BulkString", s |-> s]
error(s) == [t |-> "Error", s |-> s]
integer(i) == [t |-> "Integer", i |-> i]
array(a) == [t |-> "Array", a |-> a]
Null == [t |-> "Null"]

OK == simple_string(<<"O", "K">>)
QUEUED == simple_string(<<"Q", "U", "E", "U", "E", "D">>)
PONG == simple_string(<<"P", "O", "N", "G">>)

-----------------------------------------------------------------------------
(* store.rs: Value, Expiration, Entry, Store.                              *)

Value_Int(i) == [t |-> "Int", i |-> i]
Value_Str(s) == [t |-> "Str", s |-> s]

\* time::Duration::whole_seconds: truncation towards zero.
whole_seconds(ms) ==
    IF ms >= 0 THEN ms \div MsPerSec ELSE 0 - ((0 - ms) \div MsPerSec)

\* Expiration::new; the JoinHandle it keeps is never used: dropping it
\* detaches the task, which keeps running.
Expiration_new(duration, t) == [expires_at |-> t + duration]

\* An entry that does not record when it was written.
Entry_new_untouched(value, t) ==
    [value |-> value, expiration |-> None, touched_at |-> 0]

Entry_new(value, t) == [value |-> value, expiration |-> None, touched_at |-> t]

Entry_set_expiration(entry, expiration, t) ==
    [entry EXCEPT !.expiration = Some(expiration), !.touched_at = t]

Entry_ttl(entry, t) ==
    IF IsSome(entry.expiration)
    THEN Some(whole_seconds(Unwrap(entry.expiration).expires_at - t))
    ELSE None

Store_new == [data |-> <<>>, clients |-> <<>>, next_client_id |-> 1]

Insert(map, k, v) == [x \in (DOMAIN map) \cup {k} |-> IF x = k THEN v ELSE map[x]]
Remove(map, k) == [x \in (DOMAIN map) \ {k} |-> map[x]]

\* A Store::add_client that hands out the smallest id no registered client
\* holds.
Store_add_client_reusing(store, addr) ==
    LET used == {store.clients[x] : x \in DOMAIN store.clients}
        free == CHOOSE n \in 1..(Cardinality(used) + 1) :
                    /\ n \notin used
                    /\ \A m \in 1..(n - 1) : m \in used
    IN [store EXCEPT !.next_client_id = free + 1,
                     !.clients = Insert(@, addr, free)]

Store_add_client(store, addr) ==
    [store EXCEPT !.next_client_id = @ + 1,
                  !.clients = Insert(@, addr, store.next_client_id)]

Store_remove_client(store, addr) ==
    [store EXCEPT !.clients = Remove(@, addr)]

\* A Store::set that never carries the expiration forward.
Store_set_forgets(store, key, value, keep_ttl, t) ==
    LET parsed == ParseI64(value)
        val == IF IsSome(parsed) THEN Value_Int(Unwrap(parsed)) ELSE Value_Str(value)
    IN [store EXCEPT !.data = Insert(@, key, Entry_new(val, t))]

Store_set(store, key, value, keep_ttl, t) ==
    LET parsed == ParseI64(value)
        val == IF IsSome(parsed) THEN Value_Int(Unwrap(parsed)) ELSE Value_Str(value)
        maybe_expiration ==
            IF key \in DOMAIN store.data THEN store.data[key].expiration ELSE None
        entry ==
            IF keep_ttl /\ IsSome(maybe_expiration)
            THEN Entry_set_expiration(Entry_new(val, t), Unwrap(maybe_expiration), t)
            ELSE Entry_new(val, t)
    IN [store EXCEPT !.data = Insert(@, key, entry)]

Store_get(store, key) ==
    IF key \in DOMAIN store.data THEN Some(store.data[key].value) ELSE None

\* Store::remove: the store afterwards; whether a key was there is
\* Store_get before it.
Store_remove(store, key) == [store EXCEPT !.data = Remove(@, key)]

\* Store::expire: the store afterwards; it returns Some(()) exactly when
\* the key was present.
Store_expire(store, key, expiration, t) ==
    IF key \in DOMAIN store.data
    THEN [store EXCEPT !.data[key] = Entry_set_expiration(@, expiration, t)]
    ELSE store

TTL_Expires(n) == [t |-> "Expires", n |-> n]
TTL_NoExpiration == [t |-> "NoExpiration"]
TTL_KeyNotFound == [t |-> "KeyNotFound"]

Store_ttl(store, key, t) ==
    IF key \in DOMAIN store.data
    THEN LET ttl == Entry_ttl(store.data[key], t) IN
         IF IsSome(ttl) THEN TTL_Expires(Unwrap(ttl)) ELSE TTL_NoExpiration
    ELSE TTL_KeyNotFound

Store_last_touched(store, key) ==
    IF key \in DOMAIN store.data THEN Some(store.data[key].touched_at) ELSE None

-----------------------------------------------------------------------------
(* command.rs: Action, Command, CommandOpt, ParseCommandError and the      *)
(* parsers.  A parser returns [ok |-> TRUE, cmd |-> c] or                  *)
(* [ok |-> FALSE, err |-> e].                                              *)

Upper == <<"A", "B", "C", "D", "E", "F", "G", "H", "I", "J", "K", "L", "M",
           "N", "O", "P", "Q", "R", "S", "T", "U", "V", "W", "X", "Y", "Z">>
Lower == <<"a", "b", "c", "d", "e", "f", "g", "h", "i", "j", "k", "l", "m",
           "n", "o", "p", "q", "r", "s", "t", "u", "v", "w", "x", "y", "z">>

to_lowercase(s) ==
    [i \in 1..Len(s) |->
        IF \E j \in 1..26 : Upper[j] = s[i]
        THEN Lower[CHOOSE j \in 1..26 : Upper[j] = s[i]]
        ELSE s[i]]

\* impl fmt::Display for Action: the lower-case name of each action.
ActionName ==
    [Ping |-> <<"p", "i", "n", "g">>,
     Echo |-> <<"e", "c", "h", "o">>,
     Set |-> <<"s", "e", "t">>,
     SetEx |-> <<"s", "e", "t", "e", "x">>,
     SetNx |-> <<"s", "e", "t", "n", "x">>,
     Get |-> <<"g", "e", "t">>,
     Expire |-> <<"e", "x", "p", "i", "r", "e">>,
     PExpire |-> <<"p", "e", "x", "p", "i", "r", "e">>,
     Ttl |-> <<"t", "t", "l">>,
     Multi |-> <<"m", "u", "l", "t", "i">>,
     Exec |-> <<"e", "x", "e", "c">>,
     Discard |-> <<"d", "i", "s", "c", "a", "r", "d">>,
     Watch |-> <<"w", "a", "t", "c", "h">>,
     Unwatch |-> <<"u", "n", "w", "a", "t", "c", "h">>]

Actions == DOMAIN ActionName

ParseCommandError_new(kind, action) ==
    [kind |-> kind, action |-> action, other_context |-> None]

ParseCommandError_new_with_context(kind, action, other_context) ==
    [kind |-> kind, action |-> action, other_context |-> Some(other_context)]

Ok(cmd) == [ok |-> TRUE, cmd |-> cmd]
Err(e) == [ok |-> FALSE, err |-> e]

\* Action::parse: Some(action), or None for an unknown name.
Action_parse(s) ==
    LET l == to_lowercase(s) IN
    IF \E a \in Actions : ActionName[a] = l
    THEN Some(CHOOSE a \in Actions : ActionName[a] = l)
    ELSE None

Command_new(action, args, lock) ==
    [action |-> action, args |-> args, opts |-> {}, lock |-> lock]

\* resp::Value::to_string: the string of a SimpleString or BulkString.
Value_to_string(v) ==
    IF v.t \in {"SimpleString", "BulkString"} THEN Some(v.s) ELSE None

\* expect_max_args: TRUE when the arr is not longer than max + 1.
expect_max_args(v, max) == Len(v) <= max + 1

WrongNumberArgs(action) == Err(ParseCommandError_new("WrongNumberArgs", Some(action)))
InvalidArgs == Err(ParseCommandError_new("InvalidArgs", None))

\* next_arg on the iterator standing before element i of the arr: the
\* argument as [ok |-> TRUE, cmd |-> string], or the error.
next_arg(arr, i, action) ==
    IF i > Len(arr) THEN WrongNumberArgs(action)
    ELSE IF IsSome(Value_to_string(arr[i])) THEN Ok(Unwrap(Value_to_string(arr[i])))
    ELSE InvalidArgs

parse_ping(arr) ==
    IF ~expect_max_args(arr, 1) THEN WrongNumberArgs("Ping")
    ELSE LET arg == next_arg(arr, 2, "Ping") IN
         Ok(Command_new("Ping", IF arg.ok THEN <<arg.cmd>> ELSE <<>>, None))

parse_echo(arr) ==
    IF ~expect_max_args(arr, 1) THEN WrongNumberArgs("Echo")
    ELSE LET arg == next_arg(arr, 2, "Echo") IN
         IF arg.ok THEN Ok(Command_new("Echo", <<arg.cmd>>, None)) ELSE arg

SetEx(n) == [o |-> "SetEx", n |-> n]
SetPx(n) == [o |-> "SetPx", n |-> n]
SetNx == [o |-> "SetNx"]
SetXx == [o |-> "SetXx"]
SetKeepTtl == [o |-> "SetKeepTtl"]

SyntaxError == Err(ParseCommandError_new("SyntaxError", Some("Set")))

\* An option loop that lets NX and XX stand together.
RECURSIVE parse_set_options_lenient(_, _, _)
parse_set_options_lenient(arr, i, options) ==
    IF i > Len(arr) THEN Ok(options)
    ELSE IF ~IsSome(Value_to_string(arr[i])) THEN InvalidArgs
    ELSE LET opt_str == to_lowercase(Unwrap(Value_to_string(arr[i]))) IN
         IF opt_str = <<"e", "x">> \/ opt_str = <<"p", "x">> THEN
             IF i + 1 > Len(arr) THEN SyntaxError
             ELSE IF ~IsSome(Value_to_string(arr[i + 1])) THEN InvalidArgs
             ELSE LET ttl == ParseU64(Unwrap(Value_to_string(arr[i + 1]))) IN
                  IF ~IsSome(ttl)
                  THEN Err(ParseCommandError_new("InvalidTtl", Some("Set")))
                  ELSE parse_set_options_lenient(arr, i + 2,
                           options \cup {IF opt_str = <<"e", "x">>
                                         THEN SetEx(Unwrap(ttl))
                                         ELSE SetPx(Unwrap(ttl))})
         ELSE IF opt_str = <<"n", "x">> THEN
             parse_set_options_lenient(arr, i + 1, options \cup {SetNx})
         ELSE IF opt_str = <<"x", "x">> THEN
             parse_set_options_lenient(arr, i + 1, options \cup {SetXx})
         ELSE IF opt_str = <<"k", "e", "e", "p", "t", "t", "l">> THEN
             parse_set_options_lenient(arr, i + 1, options \cup {SetKeepTtl})
         ELSE parse_set_options_lenient(arr, i + 1, options)

\* The option loop of parse_set, the iterator standing before element i.
RECURSIVE parse_set_options(_, _, _)
parse_set_options(arr, i, options) ==
    IF i > Len(arr) THEN Ok(options)
    ELSE IF ~IsSome(Value_to_string(arr[i])) THEN InvalidArgs
    ELSE LET opt_str == to_lowercase(Unwrap(Value_to_string(arr[i]))) IN
         IF opt_str = <<"e", "x">> \/ opt_str = <<"p", "x">> THEN
             IF i + 1 > Len(arr) THEN SyntaxError
             ELSE IF ~IsSome(Value_to_string(arr[i + 1])) THEN InvalidArgs
             ELSE LET ttl == ParseU64(Unwrap(Value_to_string(arr[i + 1]))) IN
                  IF ~IsSome(ttl)
                  THEN Err(ParseCommandError_new("InvalidTtl", Some("Set")))
                  ELSE parse_set_options(arr, i + 2,
                           options \cup {IF opt_str = <<"e", "x">>
                                         THEN SetEx(Unwrap(ttl))
                                         ELSE SetPx(Unwrap(ttl))})
         ELSE IF opt_str = <<"n", "x">> THEN
             IF SetXx \in options THEN SyntaxError
             ELSE parse_set_options(arr, i + 1, options \cup {SetNx})
         ELSE IF opt_str = <<"x", "x">> THEN
             IF SetNx \in options THEN SyntaxError
             ELSE parse_set_options(arr, i + 1, options \cup {SetXx})
         ELSE IF opt_str = <<"k", "e", "e", "p", "t", "t", "l">> THEN
             parse_set_options(arr, i + 1, options \cup {SetKeepTtl})
         ELSE parse_set_options(arr, i + 1, options)

parse_set(arr) ==
    LET key == next_arg(arr, 2, "Set")
        val == next_arg(arr, 3, "Set")
        options == parse_set_options(arr, 4, {})
    IN IF ~key.ok THEN key
       ELSE IF ~val.ok THEN val
       ELSE IF ~options.ok THEN options
       ELSE Ok([Command_new("Set", <<key.cmd, val.cmd>>, Some("Write"))
                   EXCEPT !.opts = options.cmd])

parse_setex(arr) ==
    LET key == next_arg(arr, 2, "SetEx")
        ttl == next_arg(arr, 3, "SetEx")
        val == next_arg(arr, 4, "SetEx")
    IN IF ~expect_max_args(arr, 3) THEN WrongNumberArgs("SetEx")
       ELSE IF ~key.ok THEN key
       ELSE IF ~ttl.ok THEN ttl
       ELSE IF ~IsSome(ParseU64(ttl.cmd))
            THEN Err(ParseCommandError_new("InvalidTtl", Some("SetEx")))
       ELSE IF ~val.ok THEN val
       ELSE Ok(Command_new("SetEx", <<key.cmd, ttl.cmd, val.cmd>>, Some("Write")))

parse_setnx(arr) ==
    LET key == next_arg(arr, 2, "SetNx")
        val == next_arg(arr, 3, "SetNx")
    IN IF ~expect_max_args(arr, 2) THEN WrongNumberArgs("SetNx")
       ELSE IF ~key.ok THEN key
       ELSE IF ~val.ok THEN val
       ELSE Ok(Command_new("SetNx", <<key.cmd, val.cmd>>, Some("Write")))

parse_get(arr) ==
    LET key == next_arg(arr, 2, "Get") IN
    IF ~expect_max_args(arr, 1) THEN WrongNumberArgs("Echo")
    ELSE IF ~key.ok THEN key
    ELSE Ok(Command_new("Get", <<key.cmd>>, Some("Read")))

parse_expire(arr) ==
    LET key == next_arg(arr, 2, "Expire")
        ttl == next_arg(arr, 3, "Expire")
    IN IF ~expect_max_args(arr, 2) THEN WrongNumberArgs("Expire")
       ELSE IF ~key.ok THEN key
       ELSE IF ~ttl.ok THEN ttl
       ELSE Ok(Command_new("Expire", <<key.cmd, ttl.cmd>>, Some("Write")))

parse_pexpire(arr) ==
    LET key == next_arg(arr, 2, "PExpire")
        ttl == next_arg(arr, 3, "PExpire")
    IN IF ~expect_max_args(arr, 2) THEN WrongNumberArgs("PExpire")
       ELSE IF ~key.ok THEN key
       ELSE IF ~ttl.ok THEN ttl
       ELSE Ok(Command_new("Expire", <<key.cmd, ttl.cmd>>, Some("Write")))

parse_ttl(arr) ==
    LET key == next_arg(arr, 2, "Ttl") IN
    IF ~expect_max_args(arr, 1) THEN WrongNumberArgs("Ttl")
    ELSE IF ~key.ok THEN key
    ELSE Ok(Command_new("Ttl", <<key.cmd>>, Some("Read")))

parse_multi(arr) ==
    IF ~expect_max_args(arr, 0) THEN WrongNumberArgs("Multi")
    ELSE Ok(Command_new("Multi", <<>>, None))

parse_exec(arr) ==
    IF ~expect_max_args(arr, 0) THEN WrongNumberArgs("Exec")
    ELSE Ok(Command_new("Exec", <<>>, None))

parse_discard(arr) ==
    IF ~expect_max_args(arr, 0) THEN WrongNumberArgs("Discard")
    ELSE Ok(Command_new("Discard", <<>>, None))

parse_watch(arr) ==
    IF \E i \in 2..Len(arr) : ~IsSome(Value_to_string(arr[i]))
    THEN Err(ParseCommandError_new("InvalidArgs", Some("Watch")))
    ELSE Ok(Command_new("Watch",
                        [i \in 1..(Len(arr) - 1) |-> Unwrap(Value_to_string(arr[i + 1]))],
                        None))

parse_unwatch(arr) ==
    IF ~expect_max_args(arr, 0) THEN WrongNumberArgs("Unwatch")
    ELSE Ok(Command_new("Unwatch", <<>>, None))

\* Command::from_resp
from_resp(resp_value) ==
    IF resp_value.t # "Array" THEN Err(ParseCommandError_new("MustBeArray", None))
    ELSE LET a == resp_value.a IN
    IF a = <<>> THEN Err(ParseCommandError_new("IsEmpty", None))
    ELSE IF a[1].t # "BulkString" THEN Err(ParseCommandError_new("InvalidCommand", None))
    ELSE LET action == Action_parse(a[1].s) IN
    IF ~IsSome(action)
    THEN Err(ParseCommandError_new_with_context("UnknownCommand", None,
                                                to_lowercase(a[1].s)))
    ELSE CASE Unwrap(action) = "Ping" -> parse_ping(a)
           [] Unwrap(action) = "Echo" -> parse_echo(a)
           [] Unwrap(action) = "Set" -> parse_set(a)
           [] Unwrap(action) = "SetEx" -> parse_setex(a)
           [] Unwrap(action) = "SetNx" -> parse_setnx(a)
           [] Unwrap(action) = "Get" -> parse_get(a)
           [] Unwrap(action) = "Expire" -> parse_expire(a)
           [] Unwrap(action) = "PExpire" -> parse_pexpire(a)
           [] Unwrap(action) = "Ttl" -> parse_ttl(a)
           [] Unwrap(action) = "Multi" -> parse_multi(a)
           [] Unwrap(action) = "Exec" -> parse_exec(a)
           [] Unwrap(action) = "Discard" -> parse_discard(a)
           [] Unwrap(action) = "Watch" -> parse_watch(a)
           [] Unwrap(action) = "Unwatch" -> parse_unwatch(a)

\* impl fmt::Display for ParseCommandError
ParseCommandError_fmt(e) ==
    CASE e.kind = "MustBeArray" -> <<"E", "R", "R", " ", "m", "u", "s", "t",
            " ", "b", "e", " ", "a", "n", " ", "a", "r", "r", "a", "y">>
      [] e.kind = "IsEmpty" -> <<"E", "R", "R", " ", "a", "r", "r", "a", "y",
            " ", "m", "u", "s", "t", " ", "c", "o", "n", "t", "a", "i", "n",
            " ", "a", "t", " ", "l", "e", "a", "s", "t", " ", "o", "n", "e",
            " ", "v", "a", "l", "u", "e">>
      [] e.kind = "UnknownCommand" -> <<"E", "R", "R", " ", "U", "n", "k", "n",
            "o", "w", "n", " ", "o", "r", " ", "d", "i", "s", "a", "b", "l",
            "e", "d", " ", "c", "o", "m", "m", "a", "n", "d", " ",
            "'">> \o Unwrap(e.other_context) \o <<"'">>
      [] e.kind = "InvalidArgs" -> <<"E", "R", "R", " ", "i", "n", "v", "a",
            "l", "i", "d", " ", "a", "r", "g", "u", "m", "e", "n", "t", "s",
            " ", "f", "o", "r", " ", "c", "o", "m", "m", "a", "n", "d">>
      [] e.kind = "InvalidCommand" -> <<"E", "R", "R", " ", "c", "o", "m", "m",
            "a", "n", "d", " ", "v", "a", "l", "u", "e", "s", " ", "m", "u",
            "s", "t", " ", "b", "e", " ", "B", "u", "l", "k", " ", "S", "t",
            "r", "i", "n", "g", "s">>
      [] e.kind = "WrongNumberArgs" ->
            <<"E", "R", "R", " ", "w", "r", "o", "n", "g", " ", "n", "u", "m",
            "b", "e", "r", " ", "o", "f", " ", "a", "r", "g", "u", "m", "e",
            "n", "t", "s", " ", "f", "o", "r", " ",
            "'">> \o ActionName[Unwrap(e.action)] \o <<"'", " ", "c", "o", "m",
            "m", "a", "n", "d">>
      [] e.kind = "InvalidTtl" -> <<"E", "R", "R", " ", "i", "n", "v", "a",
            "l", "i", "d", " ", "e", "x", "p", "i", "r", "e", " ", "t", "i",
            "m", "e", " ", "i", "n", " ">> \o ActionName[Unwrap(e.action)]
      [] e.kind = "SyntaxError" -> <<"E", "R", "R", " ", "s", "y", "n", "t",
            "a", "x", " ", "e", "r", "r", "o", "r">>

-----------------------------------------------------------------------------
(* main.rs: the executors.  Each returns the set of its possible outcomes  *)
(* [store, spawned, resp, panic]: the store afterwards, the expiration     *)
(* tasks it spawned, its response, and whether it panicked instead.        *)

Outcome(store, spawned, resp) ==
    [store |-> store, spawned |-> spawned, resp |-> resp, panic |-> FALSE]

Panicked(store) ==
    [store |-> store, spawned |-> <<>>, resp |-> Null, panic |-> TRUE]

\* create_expiration_task(ttl, key) spawned at time t: asleep until wake_at.
create_expiration_task(ttl, key, t) == [key |-> key, wake_at |-> t + ttl]

execute_cmd(store, cmd) ==
    CASE cmd.action = "Ping" ->
            {Outcome(store, <<>>,
                     IF cmd.args # <<>> THEN bulk_string(cmd.args[1]) ELSE PONG)}
      [] cmd.action = "Echo" ->
            {Outcome(store, <<>>,
                     bulk_string(IF cmd.args # <<>> THEN cmd.args[1] ELSE <<>>))}
      [] OTHER -> {Panicked(store)}

\* A GET that returns what the client sent only for strings.
execute_get_strings(store, cmd) ==
    LET val == Store_get(store, cmd.args[1]) IN
    {Outcome(store, <<>>,
             IF IsSome(val) /\ Unwrap(val).t = "Str"
             THEN bulk_string(Unwrap(val).s)
             ELSE Null)}

execute_get(store, cmd) ==
    LET val == Store_get(store, cmd.args[1]) IN
    {Outcome(store, <<>>,
             IF IsSome(val)
             THEN IF Unwrap(val).t = "Int"
                  THEN bulk_string(IntToString(Unwrap(val).i))
                  ELSE bulk_string(Unwrap(val).s)
             ELSE Null)}

execute_ttl(store, cmd, t) ==
    LET ttl == Store_ttl(store, cmd.args[1], t) IN
    {Outcome(store, <<>>,
             integer(CASE ttl.t = "Expires" -> ttl.n
                       [] ttl.t = "NoExpiration" -> -1
                       [] ttl.t = "KeyNotFound" -> -2))}

\* The write of execute_set: store.set, then with a ttl the spawn of the
\* expiration task and store.expire.
set_and_expire(store, key, val, keep_ttl, maybe_ttl, resp, t) ==
    LET written == Store_set(store, key, val, keep_ttl, t) IN
    IF IsSome(maybe_ttl)
    THEN Outcome(Store_expire(written, key, Expiration_new(Unwrap(maybe_ttl), t), t),
                 <<create_expiration_task(Unwrap(maybe_ttl), key, t)>>, resp)
    ELSE Outcome(written, <<>>, resp)

\* A SET that writes whatever NX and XX say.
execute_set_unconditional(store, cmd, t) ==
    LET ttls == {IF o.o = "SetEx" THEN o.n * MsPerSec ELSE o.n :
                    o \in {x \in cmd.opts : x.o \in {"SetEx", "SetPx"}}}
        maybe_ttls == IF ttls = {} THEN {None} ELSE {Some(x) : x \in ttls}
    IN {set_and_expire(store, cmd.args[1], cmd.args[2], SetKeepTtl \in cmd.opts, m,
                       IF SetXx \in cmd.opts \/ SetNx \in cmd.opts
                       THEN integer(1) ELSE OK, t) : m \in maybe_ttls}

\* execute_set: the loop over the HashSet of options leaves in maybe_ttl
\* the EX or PX option it visits last, in an order the hasher decides.
execute_set(store, cmd, t) ==
    LET key == cmd.args[1]
        val == cmd.args[2]
        ttls == {IF o.o = "SetEx" THEN o.n * MsPerSec ELSE o.n :
                    o \in {x \in cmd.opts : x.o \in {"SetEx", "SetPx"}}}
        maybe_ttls == IF ttls = {} THEN {None} ELSE {Some(x) : x \in ttls}
        keep_ttl == SetKeepTtl \in cmd.opts
        xx == SetXx \in cmd.opts
        nx == SetNx \in cmd.opts
    IN IF xx THEN
           IF IsSome(Store_get(store, key))
           THEN {set_and_expire(store, key, val, keep_ttl, m, integer(1), t) :
                    m \in maybe_ttls}
           ELSE {Outcome(store, <<>>, integer(0))}
       ELSE IF nx THEN
           IF ~IsSome(Store_get(store, key))
           THEN {set_and_expire(store, key, val, keep_ttl, m, integer(1), t) :
                    m \in maybe_ttls}
           ELSE {Outcome(store, <<>>, integer(0))}
       ELSE {set_and_expire(store, key, val, keep_ttl, m, OK, t) : m \in maybe_ttls}

execute_setex(store, cmd, t) ==
    LET key == cmd.args[1]
        ttl == ParseI64(cmd.args[2])
        val == cmd.args[3]
    IN IF ~IsSome(ttl) THEN {Panicked(store)}
       ELSE {Outcome(Store_expire(Store_set(store, key, val, FALSE, t), key,
                                  Expiration_new(Unwrap(ttl) * MsPerSec, t), t),
                     <<create_expiration_task(Unwrap(ttl) * MsPerSec, key, t)>>,
                     OK)}

\* A SETNX that refuses a present key but touches its entry.
execute_setnx_touching(store, cmd, t) ==
    LET key == cmd.args[1] IN
    IF IsSome(Store_get(store, key))
    THEN {Outcome([store EXCEPT !.data[key].touched_at = t], <<>>, integer(0))}
    ELSE {Outcome(Store_set(store, key, cmd.args[2], FALSE, t), <<>>, integer(1))}

execute_setnx(store, cmd, t) ==
    LET key == cmd.args[1] IN
    IF IsSome(Store_get(store, key))
    THEN {Outcome(store, <<>>, integer(0))}
    ELSE {Outcome(Store_set(store, key, cmd.args[2], FALSE, t), <<>>, integer(1))}

\* An EXPIRE whose negative ttl marks the key expired and leaves the
\* removal to a timer.
execute_expire_lazy(store, cmd, as_ms, t) ==
    LET key == cmd.args[1]
        ttl == ParseI64(cmd.args[2])
        present == IsSome(Store_get(store, key))
    IN IF ~IsSome(ttl) THEN {Panicked(store)}
       ELSE {Outcome(Store_expire(store, key, Expiration_new(0, t), t),
                     <<create_expiration_task(0, key, t)>>,
                     integer(IF present THEN 1 ELSE 0))}

execute_expire(store, cmd, as_ms, t) ==
    LET key == cmd.args[1]
        ttl == ParseI64(cmd.args[2])
        present == IsSome(Store_get(store, key))
    IN IF ~IsSome(ttl) THEN {Panicked(store)}
       ELSE IF Unwrap(ttl) < 0
       THEN {Outcome(Store_remove(store, key), <<>>,
                     integer(IF present THEN 1 ELSE 0))}
       ELSE LET duration == IF as_ms THEN Unwrap(ttl) ELSE Unwrap(ttl) * MsPerSec IN
            {Outcome(Store_expire(store, key, Expiration_new(duration, t), t),
                     <<create_expiration_task(duration, key, t)>>,
                     integer(IF present THEN 1 ELSE 0))}

execute_read_cmd(store, cmd, t) ==
    CASE cmd.action = "Get" -> execute_get(store, cmd)
      [] cmd.action = "Ttl" -> execute_ttl(store, cmd, t)
      [] OTHER -> {Panicked(store)}

execute_write_cmd(store, cmd, t) ==
    CASE cmd.action = "Set" -> execute_set(store, cmd, t)
      [] cmd.action = "SetEx" -> execute_setex(store, cmd, t)
      [] cmd.action = "SetNx" -> execute_setnx(store, cmd, t)
      [] cmd.action = "Expire" -> execute_expire(store, cmd, FALSE, t)
      [] cmd.action = "PExpire" -> execute_expire(store, cmd, TRUE, t)
      [] OTHER -> {Panicked(store)}

\* The lock selection of connection_loop and of execute_transaction.
execute_by_lock(store, cmd, t) ==
    IF IsSome(cmd.lock)
    THEN IF Unwrap(cmd.lock) = "Read"
         THEN execute_read_cmd(store, cmd, t)
         ELSE execute_write_cmd(store, cmd, t)
    ELSE execute_cmd(store, cmd)

\* A watch check that lets a write at the instant of the WATCH pass.
watch_violated_strict(store, w) ==
    \E i \in 1..Len(w) :
        LET last_touched == Store_last_touched(store, w[i].key) IN
        IsSome(last_touched) /\ Unwrap(last_touched) > w[i].watch_start

\* The watch check of execute_transaction: TRUE when EXEC must abort.
watch_violated(store, w) ==
    \E i \in 1..Len(w) :
        LET last_touched == Store_last_touched(store, w[i].key) IN
        IsSome(last_touched) /\ Unwrap(last_touched) >= w[i].watch_start

\* Transaction::new, push
Transaction_new == [error |-> FALSE, queue |-> <<>>]
Transaction_push(trx, cmd) == [trx EXCEPT !.queue = Append(@, cmd)]

-----------------------------------------------------------------------------
(* main.rs: the tasks.  A connection is "new" before it is accepted,       *)
(* "idle" while its connection_loop waits in read_line, "exec" while it is *)
(* inside execute_transaction with the write lock, "closed" after its loop *)
(* has ended, "failed" after a write error has ended connection_loop and   *)
(* "dead" after a panic has unwound its task.                              *)

\* The client addresses.
Conns == {"A", "B"}

\* No response written yet.
NoReply == [t |-> "NoReply"]

\* A request: an array of bulk strings.
Req(words) == array([i \in 1..Len(words) |-> bulk_string(words[i])])

\* A write lock that is granted whoever holds it.
Unlocked == TRUE

\* RwLock::write and RwLock::read are granted when no task holds the lock
\* for writing; a read guard never outlives the step that takes it.
WriteLockFree == writer = None
ReadLockFree == writer = None

\* The expiration tasks a step spawns fit the model: the number asleep is
\* bounded, and none is spawned once the clock has reached its bound.
CanSpawn(spawned) ==
    spawned # <<>> =>
        /\ BagCardinality(timers) + Len(spawned) <= MaxTimers
        /\ now <= MaxNow

Spawn(spawned) == timers (+) SetToBag({spawned[i] : i \in 1..Len(spawned)})

\* The step taken: by whom, handling what, whether the connection had a
\* transaction open when it took it, and how many commands were queued.
Event(who, what) ==
    LET in_txn == IF who \in Conns THEN transaction[who] # None ELSE FALSE IN
    [who |-> who, what |-> what, in_txn |-> in_txn,
     queued |-> IF in_txn THEN Len(Unwrap(transaction[who]).queue) ELSE 0]

\* A connection handles the request at the head of the scenario, if the
\* clients follow one.
Consumed == IF script.rest # <<>> THEN [script EXCEPT !.rest = Tail(@)] ELSE script

\* A panic in the task of connection c.  The runtime either aborts the
\* process, or unwinds the task alone: its locals are dropped, the lock
\* guard with them, and the store keeps what was written before.
Panic(c, abort) ==
    IF abort
    THEN /\ process' = "aborted"
         /\ STORE' = Store_new
         /\ writer' = None
         /\ pc' = [x \in Conns |-> "dead"]
         /\ transaction' = [x \in Conns |-> None]
         /\ watch' = [x \in Conns |-> <<>>]
         /\ running' = [x \in Conns |-> <<>>]
         /\ results' = [x \in Conns |-> <<>>]
         /\ timers' = EmptyBag
         /\ UNCHANGED <<now, reply>>
    ELSE /\ pc' = [pc EXCEPT ![c] = "dead"]
         /\ writer' = IF writer = Some(c) THEN None ELSE writer
         /\ transaction' = [transaction EXCEPT ![c] = None]
         /\ watch' = [watch EXCEPT ![c] = <<>>]
         /\ running' = [running EXCEPT ![c] = <<>>]
         /\ results' = [results EXCEPT ![c] = <<>>]
         /\ UNCHANGED <<STORE, now, reply, timers, process>>

\* accept_loop and the head of connection_loop: register the client.
Accept(c) ==
    /\ process = "up"
    /\ pc[c] = "new"
    /\ WriteLockFree
    /\ STORE' = Store_add_client(STORE, c)
    /\ pc' = [pc EXCEPT ![c] = "idle"]
    /\ event' = Event(c, "Accept")
    /\ UNCHANGED <<writer, now, transaction, watch, running, results, reply,
                   timers, process, script, string_buf>>

\* read_line returns 0 bytes: the loop ends, the client is unregistered.
Close(c) ==
    /\ process = "up"
    /\ pc[c] = "idle"
    /\ WriteLockFree
    /\ STORE' = Store_remove_client(STORE, c)
    /\ pc' = [pc EXCEPT ![c] = "closed"]
    /\ transaction' = [transaction EXCEPT ![c] = None]
    /\ watch' = [watch EXCEPT ![c] = <<>>]
    /\ string_buf' = [string_buf EXCEPT ![c] = <<>>]
    /\ event' = Event(c, "Close")
    /\ UNCHANGED <<writer, now, running, results, reply, timers, process, script>>

\* accept_loop: the peer at address c opens a stream again after its
\* earlier connection_loop has ended.
Connect(c) ==
    /\ process = "up"
    /\ pc[c] \in {"closed", "failed"}
    /\ STORE.next_client_id <= MaxClients
    /\ pc' = [pc EXCEPT ![c] = "new"]
    /\ reply' = [reply EXCEPT ![c] = NoReply]
    /\ event' = Event(c, "Connect")
    /\ UNCHANGED <<STORE, writer, now, transaction, watch, running, results,
                   timers, process, script, string_buf>>

\* Connection c has read a complete request; p is Command::from_resp of
\* it, a command of one of the given actions.
Parsed(c, p, actions) ==
    /\ process = "up"
    /\ pc[c] = "idle"
    /\ p.ok
    /\ p.cmd.action \in actions

\* A parse error that marks the open transaction as failed.
ParseError_flagging(c, p) ==
    /\ process = "up"
    /\ pc[c] = "idle"
    /\ ~p.ok
    /\ reply' = [reply EXCEPT ![c] = error(ParseCommandError_fmt(p.err))]
    /\ transaction' = [transaction EXCEPT ![c] =
                          IF @ = None THEN @
                          ELSE Some([Unwrap(@) EXCEPT !.error = TRUE])]
    /\ event' = Event(c, "ParseError")
    /\ script' = Consumed
    /\ string_buf' = [string_buf EXCEPT ![c] = <<>>]
    /\ UNCHANGED <<STORE, writer, now, pc, watch, running, results, timers, process>>

\* The request does not parse to a command: the error is the response.
ParseError(c, p) ==
    /\ process = "up"
    /\ pc[c] = "idle"
    /\ ~p.ok
    /\ reply' = [reply EXCEPT ![c] = error(ParseCommandError_fmt(p.err))]
    /\ event' = Event(c, "ParseError")
    /\ script' = Consumed
    /\ string_buf' = [string_buf EXCEPT ![c] = <<>>]
    /\ UNCHANGED <<STORE, writer, now, pc, transaction, watch, running, results,
                   timers, process>>

\* A MULTI that always opens a fresh transaction.
Multi_resetting(c, p) ==
    /\ Parsed(c, p, {"Multi"})
    /\ transaction' = [transaction EXCEPT ![c] = Some(Transaction_new)]
    /\ reply' = [reply EXCEPT ![c] = OK]
    /\ event' = Event(c, "Multi")
    /\ script' = Consumed
    /\ string_buf' = [string_buf EXCEPT ![c] = <<>>]
    /\ UNCHANGED <<STORE, writer, now, pc, watch, running, results, timers, process>>

Multi(c, p) ==
    /\ Parsed(c, p, {"Multi"})
    /\ transaction' = [transaction EXCEPT ![c] =
                          IF transaction[c] = None THEN Some(Transaction_new) ELSE @]
    /\ reply' = [reply EXCEPT ![c] = OK]
    /\ event' = Event(c, "Multi")
    /\ script' = Consumed
    /\ string_buf' = [string_buf EXCEPT ![c] = <<>>]
    /\ UNCHANGED <<STORE, writer, now, pc, watch, running, results, timers, process>>

\* EXEC: outside a transaction Null; inside one, execute_transaction up to
\* the watch check, which either aborts or starts the replay of the queue.
Exec(c, p) ==
    /\ Parsed(c, p, {"Exec"})
    /\ event' = Event(c, "Exec")
    /\ script' = Consumed
    /\ string_buf' = [string_buf EXCEPT ![c] = <<>>]
    /\ IF transaction[c] = None
       THEN /\ reply' = [reply EXCEPT ![c] = Null]
            /\ UNCHANGED <<STORE, writer, now, pc, transaction, watch, running,
                           results, timers, process>>
       ELSE /\ WriteLockFree
            /\ transaction' = [transaction EXCEPT ![c] = None]
            /\ IF watch_violated(STORE, watch[c])
               THEN /\ reply' = [reply EXCEPT ![c] = Null]
                    /\ watch' = [watch EXCEPT ![c] = <<>>]
                    /\ UNCHANGED <<STORE, writer, now, pc, running, results,
                                   timers, process>>
               ELSE /\ writer' = Some(c)
                    /\ pc' = [pc EXCEPT ![c] = "exec"]
                    /\ running' = [running EXCEPT ![c] = Unwrap(transaction[c]).queue]
                    /\ results' = [results EXCEPT ![c] = <<>>]
                    /\ UNCHANGED <<STORE, now, watch, reply, timers, process>>

\* execute_transaction: the next command of the drained queue runs under
\* the write lock.
ExecStep(c) ==
    /\ process = "up"
    /\ pc[c] = "exec"
    /\ running[c] # <<>>
    /\ event' = Event(c, "ExecStep")
    /\ UNCHANGED <<script, string_buf>>
    /\ \E out \in execute_by_lock(STORE, Head(running[c]), now), abort \in BOOLEAN :
          IF out.panic
          THEN Panic(c, abort)
          ELSE /\ ~abort
               /\ CanSpawn(out.spawned)
               /\ STORE' = out.store
               /\ timers' = Spawn(out.spawned)
               /\ running' = [running EXCEPT ![c] = Tail(@)]
               /\ results' = [results EXCEPT ![c] = Append(@, out.resp)]
               /\ UNCHANGED <<writer, now, pc, transaction, watch, reply, process>>

\* An end of EXEC that keeps the watch list.
ExecEnd_keeps_watch(c) ==
    /\ process = "up"
    /\ pc[c] = "exec"
    /\ running[c] = <<>>
    /\ reply' = [reply EXCEPT ![c] = array(results[c])]
    /\ results' = [results EXCEPT ![c] = <<>>]
    /\ writer' = None
    /\ pc' = [pc EXCEPT ![c] = "idle"]
    /\ event' = Event(c, "ExecEnd")
    /\ UNCHANGED <<STORE, now, transaction, watch, running, timers, process, script,
                   string_buf>>

\* An end of EXEC that writes the response with the lock guard still held.
ExecEnd_holding(c) ==
    /\ process = "up"
    /\ pc[c] = "exec"
    /\ running[c] = <<>>
    /\ reply' = [reply EXCEPT ![c] = array(results[c])]
    /\ results' = [results EXCEPT ![c] = <<>>]
    /\ watch' = [watch EXCEPT ![c] = <<>>]
    /\ pc' = [pc EXCEPT ![c] = "idle"]
    /\ event' = Event(c, "ExecEnd")
    /\ UNCHANGED <<STORE, writer, now, transaction, running, timers, process,
                   script, string_buf>>

\* execute_transaction returns the array, the lock guard is dropped, the
\* watch list is cleared and the response written.
ExecEnd(c) ==
    /\ process = "up"
    /\ pc[c] = "exec"
    /\ running[c] = <<>>
    /\ reply' = [reply EXCEPT ![c] = array(results[c])]
    /\ results' = [results EXCEPT ![c] = <<>>]
    /\ watch' = [watch EXCEPT ![c] = <<>>]
    /\ writer' = None
    /\ pc' = [pc EXCEPT ![c] = "idle"]
    /\ event' = Event(c, "ExecEnd")
    /\ UNCHANGED <<STORE, now, transaction, running, timers, process, script,
                   string_buf>>

\* A DISCARD that answers and keeps the transaction.
\* A DISCARD that replies OK whether or not a transaction is open.
Discard_always_ok(c, p) ==
    /\ Parsed(c, p, {"Discard"})
    /\ transaction' = [transaction EXCEPT ![c] = None]
    /\ reply' = [reply EXCEPT ![c] = OK]
    /\ event' = Event(c, "Discard")
    /\ script' = Consumed
    /\ string_buf' = [string_buf EXCEPT ![c] = <<>>]
    /\ UNCHANGED <<STORE, writer, now, pc, watch, running, results, timers, process>>

Discard_keeps_transaction(c, p) ==
    /\ Parsed(c, p, {"Discard"})
    /\ reply' = [reply EXCEPT ![c] = IF transaction[c] # None THEN OK ELSE Null]
    /\ event' = Event(c, "Discard")
    /\ script' = Consumed
    /\ string_buf' = [string_buf EXCEPT ![c] = <<>>]
    /\ UNCHANGED <<STORE, writer, now, pc, transaction, watch, running, results,
                   timers, process>>

Discard(c, p) ==
    /\ Parsed(c, p, {"Discard"})
    /\ transaction' = [transaction EXCEPT ![c] = None]
    /\ reply' = [reply EXCEPT ![c] = IF transaction[c] # None THEN OK ELSE Null]
    /\ event' = Event(c, "Discard")
    /\ script' = Consumed
    /\ string_buf' = [string_buf EXCEPT ![c] = <<>>]
    /\ UNCHANGED <<STORE, writer, now, pc, watch, running, results, timers, process>>

\* A WATCH that starts the watch list afresh.
Watch_replacing(c, p) ==
    /\ Parsed(c, p, {"Watch"})
    /\ Len(watch[c]) + Len(p.cmd.args) <= MaxWatch
    /\ watch' = [watch EXCEPT ![c] =
                    [i \in 1..Len(p.cmd.args) |->
                        [key |-> p.cmd.args[i], watch_start |-> now]]]
    /\ reply' = [reply EXCEPT ![c] = OK]
    /\ event' = Event(c, "Watch")
    /\ script' = Consumed
    /\ string_buf' = [string_buf EXCEPT ![c] = <<>>]
    /\ UNCHANGED <<STORE, writer, now, pc, transaction, running, results, timers,
                   process>>

Watch(c, p) ==
    /\ Parsed(c, p, {"Watch"})
    /\ Len(watch[c]) + Len(p.cmd.args) <= MaxWatch
    /\ watch' = [watch EXCEPT ![c] =
                    @ \o [i \in 1..Len(p.cmd.args) |->
                             [key |-> p.cmd.args[i], watch_start |-> now]]]
    /\ reply' = [reply EXCEPT ![c] = OK]
    /\ event' = Event(c, "Watch")
    /\ script' = Consumed
    /\ string_buf' = [string_buf EXCEPT ![c] = <<>>]
    /\ UNCHANGED <<STORE, writer, now, pc, transaction, running, results, timers,
                   process>>

\* An UNWATCH that is queued when a transaction is open.
Unwatch_queued(c, p) ==
    /\ Parsed(c, p, {"Unwatch"})
    /\ IF transaction[c] = None
       THEN /\ watch' = [watch EXCEPT ![c] = <<>>]
            /\ reply' = [reply EXCEPT ![c] = OK]
            /\ UNCHANGED transaction
       ELSE /\ Len(Unwrap(transaction[c]).queue) < MaxQueue
            /\ transaction' = [transaction EXCEPT ![c] =
                                  Some(Transaction_push(Unwrap(@), p.cmd))]
            /\ reply' = [reply EXCEPT ![c] = QUEUED]
            /\ UNCHANGED watch
    /\ event' = Event(c, "Unwatch")
    /\ script' = Consumed
    /\ string_buf' = [string_buf EXCEPT ![c] = <<>>]
    /\ UNCHANGED <<STORE, writer, now, pc, running, results, timers, process>>

Unwatch(c, p) ==
    /\ Parsed(c, p, {"Unwatch"})
    /\ watch' = [watch EXCEPT ![c] = <<>>]
    /\ reply' = [reply EXCEPT ![c] = OK]
    /\ event' = Event(c, "Unwatch")
    /\ script' = Consumed
    /\ string_buf' = [string_buf EXCEPT ![c] = <<>>]
    /\ UNCHANGED <<STORE, writer, now, pc, transaction, running, results, timers,
                   process>>

\* The actions the dispatcher handles itself; every other one is queued
\* or executed.
Special == {"Multi", "Exec", "Discard", "Watch", "Unwatch"}

\* A queueing that also executes the command at once.
Queue_and_execute(c, p) ==
    /\ Parsed(c, p, Actions \ Special)
    /\ transaction[c] # None
    /\ Len(Unwrap(transaction[c]).queue) < MaxQueue
    /\ transaction' = [transaction EXCEPT ![c] =
                          Some(Transaction_push(Unwrap(@), p.cmd))]
    /\ reply' = [reply EXCEPT ![c] = QUEUED]
    /\ event' = Event(c, p.cmd.action)
    /\ script' = Consumed
    /\ string_buf' = [string_buf EXCEPT ![c] = <<>>]
    /\ \E out \in execute_by_lock(STORE, p.cmd, now) :
          STORE' = IF out.panic THEN STORE ELSE out.store
    /\ UNCHANGED <<writer, now, pc, watch, running, results, timers, process>>

\* Inside a transaction the command is pushed on the queue.
Queue(c, p) ==
    /\ Parsed(c, p, Actions \ Special)
    /\ transaction[c] # None
    /\ Len(Unwrap(transaction[c]).queue) < MaxQueue
    /\ transaction' = [transaction EXCEPT ![c] =
                          Some(Transaction_push(Unwrap(@), p.cmd))]
    /\ reply' = [reply EXCEPT ![c] = QUEUED]
    /\ event' = Event(c, p.cmd.action)
    /\ script' = Consumed
    /\ string_buf' = [string_buf EXCEPT ![c] = <<>>]
    /\ UNCHANGED <<STORE, writer, now, pc, watch, running, results, timers, process>>

\* Outside a transaction the command is executed under the lock its
\* classification names.
Dispatch(c, p) ==
    /\ Parsed(c, p, Actions \ Special)
    /\ transaction[c] = None
    /\ IsSome(p.cmd.lock) =>
          IF Unwrap(p.cmd.lock) = "Read" THEN ReadLockFree ELSE WriteLockFree
    /\ event' = Event(c, p.cmd.action)
    /\ script' = Consumed
    /\ string_buf' = [string_buf EXCEPT ![c] = <<>>]
    /\ \E out \in execute_by_lock(STORE, p.cmd, now), abort \in BOOLEAN :
          IF out.panic
          THEN Panic(c, abort)
          ELSE /\ ~abort
               /\ CanSpawn(out.spawned)
               /\ STORE' = out.store
               /\ timers' = Spawn(out.spawned)
               /\ reply' = [reply EXCEPT ![c] = out.resp]
               /\ UNCHANGED <<writer, now, pc, transaction, watch, running,
                              results, process>>

\* The handling of request p by connection c changes nothing but the
\* locals of connection_loop: a request that does not parse, MULTI,
\* DISCARD, WATCH, UNWATCH, EXEC outside a transaction, a command that is
\* queued, a command that takes no lock.
LocalOnly(c, p) ==
    \/ ~p.ok
    \/ /\ p.ok
       /\ \/ p.cmd.action \in Special \ {"Exec"}
          \/ p.cmd.action = "Exec" /\ transaction[c] = None
          \/ p.cmd.action \notin Special /\ transaction[c] # None
          \/ p.cmd.action \notin Special /\ ~IsSome(p.cmd.lock)

\* write_all fails on the response to request p: the ? operator returns
\* the error from connection_loop at once, its locals are dropped, and the
\* remove_client after the loop is not reached.
WriteError(c, p) ==
    /\ process = "up"
    /\ pc[c] = "idle"
    /\ LocalOnly(c, p)
    /\ pc' = [pc EXCEPT ![c] = "failed"]
    /\ transaction' = [transaction EXCEPT ![c] = None]
    /\ watch' = [watch EXCEPT ![c] = <<>>]
    /\ event' = Event(c, "WriteError")
    /\ script' = Consumed
    /\ string_buf' = [string_buf EXCEPT ![c] = <<>>]
    /\ UNCHANGED <<STORE, writer, now, running, results, reply, timers, process>>

\* A timer that wakes up and removes nothing.
TimerFire_idle(tm) ==
    /\ process = "up"
    /\ tm \in BagToSet(timers)
    /\ now >= tm.wake_at
    /\ WriteLockFree
    /\ timers' = timers (-) SetToBag({tm})
    /\ event' = Event("timer", tm.key)
    /\ UNCHANGED <<STORE, writer, now, pc, transaction, watch, running, results,
                   reply, process, script, string_buf>>

\* create_expiration_task after its sleep: under the write lock, return if
\* the key expires in a positive number of seconds, remove it otherwise.
TimerFire(tm) ==
    /\ process = "up"
    /\ tm \in BagToSet(timers)
    /\ now >= tm.wake_at
    /\ WriteLockFree
    /\ LET ttl == Store_ttl(STORE, tm.key, now) IN
       STORE' = IF ttl.t = "Expires" /\ ttl.n > 0
                THEN STORE
                ELSE Store_remove(STORE, tm.key)
    /\ timers' = timers (-) SetToBag({tm})
    /\ event' = Event("timer", tm.key)
    /\ UNCHANGED <<writer, now, pc, transaction, watch, running, results, reply,
                   process, script, string_buf>>

\* Time passes: up to the bound, and beyond it while a task is still asleep.
Tick ==
    /\ process = "up"
    /\ (now < MaxNow) \/ (\E tm \in BagToSet(timers) : tm.wake_at > now)
    /\ now' = now + TickMs
    /\ event' = Event("clock", "Tick")
    /\ UNCHANGED <<STORE, writer, pc, transaction, watch, running, results, reply,
                   timers, process, script, string_buf>>

\* The state after construction: an empty store, nobody connected; the
\* clients follow the scenario s, or send what they like when s is empty.
InitWith(s) ==
    /\ STORE = Store_new
    /\ writer = None
    /\ now = 0
    /\ pc = [c \in Conns |-> "new"]
    /\ transaction = [c \in Conns |-> None]
    /\ watch = [c \in Conns |-> <<>>]
    /\ running = [c \in Conns |-> <<>>]
    /\ results = [c \in Conns |-> <<>>]
    /\ reply = [c \in Conns |-> NoReply]
    /\ timers = EmptyBag
    /\ process = "up"
    /\ script = s
    /\ string_buf = [c \in Conns |-> <<>>]
    /\ event = [who |-> "main", what |-> "Start", in_txn |-> FALSE, queued |-> 0]

\* No scenario: the clients send what they like.
NoScript == [name |-> "none", rest |-> <<>>]

Init == InitWith(NoScript)

-----------------------------------------------------------------------------
(* The requests the clients send.                                          *)

kA == <<"a">>
kB == <<"b">>

MULTI == Req(<<<<"M", "U", "L", "T", "I">>>>)
EXEC == Req(<<<<"E", "X", "E", "C">>>>)
DISCARD == Req(<<<<"D", "I", "S", "C", "A", "R", "D">>>>)
UNWATCH == Req(<<<<"U", "N", "W", "A", "T", "C", "H">>>>)
WATCH(keys) == Req(<<<<"W", "A", "T", "C", "H">>>> \o keys)
SET(k, v) == Req(<<<<"S", "E", "T">>, k, v>>)
GET(k) == Req(<<<<"G", "E", "T">>, k>>)
EXPIRE(k, n) == Req(<<<<"E", "X", "P", "I", "R", "E">>, k, n>>)
SETEX(k, n, v) == Req(<<<<"S", "E", "T", "E", "X">>, k, n, v>>)

PING == Req(<<<<"P", "I", "N", "G">>>>)
ECHO(m) == Req(<<<<"E", "C", "H", "O">>, m>>)
SETNX(k, v) == Req(<<<<"S", "E", "T", "N", "X">>, k, v>>)
PEXPIRE(k, n) == Req(<<<<"P", "E", "X", "P", "I", "R", "E">>, k, n>>)
TTL(k) == Req(<<<<"T", "T", "L">>, k>>)

-----------------------------------------------------------------------------
(* Transactions: connection A watches, queues and executes, connection B   *)
(* writes and reads the key A watches.  EXPIRE a x is the queued command   *)
(* whose ttl is not an integer.                                            *)

TxnIn(c) ==
    IF c = "A"
    THEN {from_resp(r) : r \in
            {MULTI, EXEC, DISCARD, WATCH(<<kA>>), SET(kA, <<"w">>),
             EXPIRE(kA, <<"x">>)}}
    ELSE {from_resp(r) : r \in {SET(kA, <<"v">>), GET(kA)}}

NextTxn ==
    \/ \E c \in Conns : Accept(c)
    \/ \E c \in Conns : \E p \in TxnIn(c) : Multi(c, p)
    \/ \E c \in Conns : \E p \in TxnIn(c) : Exec(c, p)
    \/ \E c \in Conns : ExecStep(c)
    \/ \E c \in Conns : ExecEnd(c)
    \/ \E c \in Conns : \E p \in TxnIn(c) : Discard(c, p)
    \/ \E c \in Conns : \E p \in TxnIn(c) : Watch(c, p)
    \/ \E c \in Conns : \E p \in TxnIn(c) : Queue(c, p)
    \/ \E c \in Conns : \E p \in TxnIn(c) : Dispatch(c, p)
    \/ Tick

SpecTxn == Init /\ [][NextTxn]_vars

-----------------------------------------------------------------------------
(* Queueing: connection A sends each kind of queueable command inside a    *)
(* transaction, connection B fills the store.                              *)

QueueIn(c) ==
    IF c = "A"
    THEN {from_resp(r) : r \in
            {MULTI, DISCARD, PING, ECHO(<<"h">>), SET(kA, <<"w">>),
             SETEX(kA, <<"1">>, <<"w">>), SETNX(kA, <<"w">>), GET(kA),
             EXPIRE(kA, <<"1">>), PEXPIRE(kA, <<"1">>), TTL(kA)}}
    ELSE {from_resp(r) : r \in {SET(kA, <<"v">>), SET(kB, <<"v">>)}}

NextQueue ==
    \/ \E c \in Conns : Accept(c)
    \/ \E c \in Conns : \E p \in QueueIn(c) : Multi(c, p)
    \/ \E c \in Conns : \E p \in QueueIn(c) : Discard(c, p)
    \/ \E c \in Conns : \E p \in QueueIn(c) : Queue(c, p)
    \/ \E p \in QueueIn("B") : Dispatch("B", p)
    \/ Tick

SpecQueue == Init /\ [][NextQueue]_vars

-----------------------------------------------------------------------------
(* Scenarios: the requests arrive in a given order, the clock and the      *)
(* accepts are free.                                                       *)

From(c, r) == [conn |-> c, p |-> from_resp(r)]

\* WATCH k, then the other connection's SET k v, then MULTI, SET k w,
\* EXEC and GET k.
S6 ==
    [name |-> "S6",
     rest |-> <<From("A", WATCH(<<kA>>)), From("B", SET(kA, <<"v">>)),
                From("A", MULTI), From("A", SET(kA, <<"w">>)),
                From("A", EXEC), From("A", GET(kA))>>]

\* The watched key exists, and the other connection removes it with a
\* negative EXPIRE at some point before EXEC.
S7 ==
    LET set == From("B", SET(kA, <<"v">>))
        wat == From("A", WATCH(<<kA>>))
        rem == From("B", EXPIRE(kA, <<"-", "1">>))
        mul == From("A", MULTI)
        que == From("A", SET(kA, <<"w">>))
        exe == From("A", EXEC)
    IN {[name |-> "S7", rest |-> r] : r \in
           {<<set, wat, rem, mul, que, exe>>,
            <<set, wat, mul, rem, que, exe>>,
            <<set, wat, mul, que, rem, exe>>}}

Scenarios == {S6} \cup S7

\* The request connection c reads next.
Arriving(c) ==
    IF script.rest # <<>> /\ Head(script.rest).conn = c
    THEN {Head(script.rest).p}
    ELSE {}

InitScenario == \E s \in Scenarios : InitWith(s)

NextScenario ==
    \/ \E c \in Conns : Accept(c)
    \/ \E c \in Conns : \E p \in Arriving(c) : Watch(c, p)
    \/ \E c \in Conns : \E p \in Arriving(c) : Multi(c, p)
    \/ \E c \in Conns : \E p \in Arriving(c) : Queue(c, p)
    \/ \E c \in Conns : \E p \in Arriving(c) : Exec(c, p)
    \/ \E c \in Conns : ExecStep(c)
    \/ \E c \in Conns : ExecEnd(c)
    \/ \E c \in Conns : \E p \in Arriving(c) : Dispatch(c, p)
    \/ Tick

SpecScenario == InitScenario /\ [][NextScenario]_vars

-----------------------------------------------------------------------------
(* Expiration: connection A gives key a a TTL and may close, connection B  *)
(* reads the key and its TTL; the timers fire when their sleep is over.    *)

TtlIn(c) ==
    IF c = "A"
    THEN {from_resp(r) : r \in {SETEX(kA, <<"1">>, <<"v">>)}}
    ELSE {from_resp(r) : r \in {GET(kA), TTL(kA)}}

Fire == \E tm \in BagToSet(timers) : TimerFire(tm)

NextTtl ==
    \/ \E c \in Conns : Accept(c)
    \/ \E c \in Conns : Close(c)
    \/ \E c \in Conns : \E p \in TtlIn(c) : Dispatch(c, p)
    \/ Fire
    \/ Tick

\* The executor runs every task that is ready: a timer whose sleep is over
\* gets the lock, and time does not stop.
SpecTtl == Init /\ [][NextTtl]_vars /\ WF_vars(Fire) /\ WF_vars(Tick)

-----------------------------------------------------------------------------
(* The properties.                                                         *)

\* The step just taken is connection c handling a request of action what.
Handled(c, what) == event.who = c /\ event.what = what

\* Some entry (k, t) of c's watch list has k in the store, touched at t or
\* later.
WatchedKeyTouched(c) ==
    \E i \in 1..Len(watch[c]) :
        /\ watch[c][i].key \in DOMAIN STORE.data
        /\ STORE.data[watch[c][i].key].touched_at >= watch[c][i].watch_start

\* C1: an EXEC inside a transaction replies Null, runs none of the queued
\* commands and leaves the store as it is when some watch entry (k, t) has
\* k in the store with last_touched(k) >= t; when no entry has, it goes
\* on to run the queued commands, all of them, under the write lock.
C1_ExecWatchCheck ==
    [][\A c \in Conns :
          (event'.who = c /\ event'.what = "Exec" /\ event'.in_txn) =>
             IF WatchedKeyTouched(c)
             THEN /\ reply'[c] = Null
                  /\ pc'[c] = "idle"
                  /\ running'[c] = <<>>
                  /\ STORE' = STORE
             ELSE /\ pc'[c] = "exec"
                  /\ running'[c] = Unwrap(transaction[c]).queue
                  /\ writer' = Some(c)]_vars

\* An EXEC with a queued command was aborted: the other connection wrote
\* the watched key.
C1_Witness ==
    /\ Handled("A", "Exec") /\ event.in_txn /\ event.queued > 0
    /\ pc["A"] = "idle"
    /\ reply["A"] = Null
    /\ kA \in DOMAIN STORE.data
    /\ STORE.data[kA].value = Value_Str(<<"v">>)

\* C2: A WATCH k, then B's SET k v, then A's MULTI, SET k w, EXEC: the
\* EXEC replies Null and the GET k after it returns v, whatever the clock
\* does in between.
C2_WatchedWriteAborts ==
    script.name = "S6" =>
        /\ Len(script.rest) = 1 => pc["A"] = "idle" /\ reply["A"] = Null
        /\ Len(script.rest) = 0 => reply["A"] = bulk_string(<<"v">>)

\* The scenario has run to its end and the GET returned v.
C2_Witness ==
    /\ script.name = "S6"
    /\ script.rest = <<>>
    /\ Handled("A", "Get")
    /\ reply["A"] = bulk_string(<<"v">>)
    /\ reply["B"] = OK

\* C3: from the watch check of an EXEC to the completion of its last
\* queued command the connection holds the write lock, no command of
\* another connection is executed and nothing else changes the store: the
\* lock is released only when every queued command has been applied, so
\* nobody sees the store with only some of them applied.
C3_ExecAtomic ==
    [][\A c \in Conns :
          pc[c] = "exec" =>
             /\ writer = Some(c)
             /\ event'.who # c =>
                   /\ STORE' = STORE
                   /\ event'.who \in Conns /\ ~event'.in_txn =>
                         event'.what \notin {"Get", "Ttl", "Set", "SetEx", "SetNx",
                                             "Expire", "PExpire"}
             /\ \/ writer' = Some(c)
                \/ running[c] = <<>>
                \/ results[c] = <<>>
                \/ process' = "aborted"]_vars

\* C4: inside a transaction every parsed queueable command is appended to
\* the queue and answered QUEUED, and the store is left as it is.
C4_QueuedNotExecuted ==
    [][\A c \in Conns :
          (event'.who = c /\ event'.in_txn
              /\ event'.what \in Actions \ Special) =>
             /\ transaction'[c] # None
             /\ Len(Unwrap(transaction'[c]).queue) = Len(Unwrap(transaction[c]).queue) + 1
             /\ SubSeq(Unwrap(transaction'[c]).queue, 1, Len(Unwrap(transaction[c]).queue))
                    = Unwrap(transaction[c]).queue
             /\ Unwrap(transaction'[c]).queue[Len(Unwrap(transaction'[c]).queue)].action
                    = event'.what
             /\ reply'[c] = QUEUED
             /\ STORE' = STORE]_vars

\* A write was queued behind another command while the key it names holds
\* the other connection's value.
C4_Witness ==
    /\ Handled("A", "SetEx") /\ event.in_txn /\ event.queued = 1
    /\ reply["A"] = QUEUED
    /\ Len(Unwrap(transaction["A"]).queue) = 2
    /\ kA \in DOMAIN STORE.data
    /\ STORE.data[kA].value = Value_Str(<<"v">>)

\* C5: MULTI, queued commands, DISCARD: the DISCARD answers OK and leaves
\* no transaction, nothing of the queue is run, and no step the connection
\* takes between MULTI and DISCARD changes the store.
C5_DiscardDropsQueue ==
    [][\A c \in Conns :
          /\ (event'.who = c /\ event'.what = "Discard" /\ event'.in_txn) =>
                /\ reply'[c] = OK
                /\ transaction'[c] = None
                /\ pc'[c] = "idle"
                /\ running'[c] = <<>>
                /\ STORE' = STORE
          /\ (event'.who = c /\ event'.in_txn /\ event'.what # "Exec") =>
                STORE' = STORE]_vars

\* A transaction with two queued commands was discarded.
C5_Witness ==
    /\ Handled("A", "Discard") /\ event.in_txn /\ event.queued = 2
    /\ reply["A"] = OK
    /\ transaction["A"] = None
    /\ STORE.data = <<>>

\* C6: when the watch check passes, the commands of the queue run one
\* after the other in enqueue order, each on the store the ones before it
\* left, and EXEC ends with the reply Array of their responses, one for
\* each.
C6_ExecRepliesArray ==
    [][\A c \in Conns :
          pc[c] = "exec" =>
             \/ /\ pc'[c] = "exec"
                /\ event'.who # c => UNCHANGED <<STORE, running, results>>
                /\ event'.who = c =>
                      \E out \in execute_by_lock(STORE, Head(running[c]), now) :
                         /\ ~out.panic
                         /\ STORE' = out.store
                         /\ results'[c] = Append(results[c], out.resp)
                         /\ running'[c] = Tail(running[c])
             \/ /\ pc'[c] = "idle"
                /\ running[c] = <<>>
                /\ reply'[c] = array(results[c])
                /\ STORE' = STORE]_vars

\* C7: the watched key exists at WATCH and another connection removes it
\* with a negative EXPIRE before EXEC: the EXEC replies Null.
C7_RemovalAborts ==
    (script.name = "S7" /\ script.rest = <<>>) =>
        /\ pc["A"] # "exec"
        /\ pc["A"] = "idle" => reply["A"] = Null

\* C8: a DISCARD inside a transaction leaves the watch list empty.
C8_DiscardClearsWatch ==
    \A c \in Conns :
        (Handled(c, "Discard") /\ event.in_txn) => watch[c] = <<>>

\* C9: when an EXEC issued inside a transaction has returned, aborted or
\* run, the connection has no transaction, an empty watch list and waits
\* for the next request.
C9_ExecLeavesNormal ==
    \A c \in Conns :
        \/ Handled(c, "Exec") /\ event.in_txn /\ pc[c] # "exec"
        \/ Handled(c, "ExecEnd")
        => /\ pc[c] = "idle"
           /\ transaction[c] = None
           /\ watch[c] = <<>>
           /\ writer # Some(c)

\* An EXEC has run its two queued commands to the end.
C9_Witness ==
    /\ Handled("A", "ExecEnd")
    /\ reply["A"] = array(<<OK, OK>>)
    /\ kA \in DOMAIN STORE.data
    /\ STORE.data[kA].value = Value_Str(<<"w">>)

\* The instants a key of the expiration specification can expire at.
Instants == {n * TickMs : n \in 0..(MaxTicks + 2)}

\* Key k is in the store, to expire at t.
Armed(k, t) ==
    /\ k \in DOMAIN STORE.data
    /\ STORE.data[k].expiration = Some([expires_at |-> t])

\* C10: a key given a TTL has a timer asleep until the TTL is over, and
\* unless it is rewritten or re-armed it is eventually removed, the
\* connection that set it closed or not; once it is removed GET replies
\* Null and TTL replies -2.
C10_ExpiredKeyRemoved ==
    /\ [](\A t \in Instants :
            Armed(kA, t) =>
               \E tm \in BagToSet(timers) : tm.key = kA /\ tm.wake_at = t)
    /\ \A t \in Instants : Armed(kA, t) ~> ~Armed(kA, t)
    /\ [](\A c \in Conns :
            kA \notin DOMAIN STORE.data =>
               /\ Handled(c, "Get") => reply[c] = Null
               /\ Handled(c, "Ttl") => reply[c] = integer(0 - 2))

\* The connection that set the key has closed, the key is gone and the
\* other connection's TTL says so.
C10_Witness ==
    /\ pc["A"] = "closed"
    /\ reply["A"] = OK
    /\ kA \notin DOMAIN STORE.data
    /\ timers = EmptyBag
    /\ Handled("B", "Ttl")
    /\ reply["B"] = integer(0 - 2)

-----------------------------------------------------------------------------
(* Expiration and re-arming: connection A arms key a, rewrites it with and *)
(* without KEEPTTL, re-arms it and removes it; connection B reads it.  No  *)
(* scheduling is assumed.                                                  *)

SETOPT(k, v, opts) == Req(<<<<"S", "E", "T">>, k, v>> \o opts)

KEEPTTL == <<"K", "E", "E", "P", "T", "T", "L">>

ExpireOne == from_resp(EXPIRE(kA, <<"1">>))
ExpireNegative == from_resp(EXPIRE(kA, <<"-", "1">>))
PExpireOne == from_resp(PEXPIRE(kA, <<"1">>))
SetKeep == from_resp(SETOPT(kA, <<"w">>, <<KEEPTTL>>))
SetPlain == from_resp(SET(kA, <<"w">>))

ExpireIn(c) ==
    IF c = "A"
    THEN {from_resp(SETEX(kA, <<"1">>, <<"v">>)), SetPlain, SetKeep,
          ExpireOne, ExpireNegative, PExpireOne}
    ELSE {from_resp(r) : r \in {GET(kA), TTL(kA)}}

NextExpire ==
    \/ \E c \in Conns : Accept(c)
    \/ \E c \in Conns : \E p \in ExpireIn(c) : Dispatch(c, p)
    \/ Fire
    \/ Tick

SpecExpire == Init /\ [][NextExpire]_vars

\* The executor runs every task that is ready: a timer whose sleep is over
\* gets the lock, and time does not stop.
SpecExpireFair == SpecExpire /\ WF_vars(Fire) /\ WF_vars(Tick)

\* C11: a timer never removes a key whose current expires_at has not
\* passed, however close the deadline it was spawned for and the deadline
\* the key was re-armed to are.
C11_StaleTimerHarmless ==
    [][\A k \in DOMAIN STORE.data :
          (event'.who = "timer" /\ k \notin DOMAIN STORE'.data
              /\ IsSome(STORE.data[k].expiration)) =>
             Unwrap(STORE.data[k].expiration).expires_at <= now]_vars

\* C12: a timer that wakes while the ttl of its key is NoExpiration,
\* KeyNotFound or Expires(n) with n > 0 leaves the store as it is.
C12_TimerWakeLeavesKey ==
    [][event'.who = "timer" =>
          LET ttl == Store_ttl(STORE, event'.what, now) IN
          (ttl.t \in {"NoExpiration", "KeyNotFound"}
              \/ (ttl.t = "Expires" /\ ttl.n > 0)) =>
             STORE' = STORE]_vars

\* C13: an EXPIRE or PEXPIRE on a key that is not in the store replies
\* Integer 0, schedules no timer and leaves the store as it is.
C13_ExpireAbsentKey ==
    [][\A c \in Conns :
          (event'.who = c /\ event'.what = "Expire"
              /\ kA \notin DOMAIN STORE.data) =>
             /\ reply'[c] = integer(0)
             /\ timers' = timers
             /\ STORE' = STORE]_vars

\* C14: EXPIRE k n with n < 0, on every store: k is removed at once, the
\* reply is Integer 1 if k was there and 0 if not, no timer is scheduled
\* and no other key is touched.
C14_NegativeExpireRemoves ==
    /\ ExpireNegative.ok
    /\ \A out \in execute_by_lock(STORE, ExpireNegative.cmd, now) :
          /\ ~out.panic
          /\ out.resp = integer(IF kA \in DOMAIN STORE.data THEN 1 ELSE 0)
          /\ out.spawned = <<>>
          /\ DOMAIN out.store.data = DOMAIN STORE.data \ {kA}
          /\ \A k \in DOMAIN out.store.data : out.store.data[k] = STORE.data[k]

\* A negative EXPIRE has removed the armed key: it replied 1, the key is
\* gone, and the timer of its old deadline is still asleep.
C14_Witness ==
    /\ Handled("A", "Expire")
    /\ reply["A"] = integer(1)
    /\ kA \notin DOMAIN STORE.data
    /\ timers # EmptyBag

\* C15: PEXPIRE k n parses to a command tagged PExpire and sets k to
\* expire n milliseconds from now; EXPIRE k n sets it to expire n seconds
\* from now.
C15_PExpireMilliseconds ==
    kA \in DOMAIN STORE.data =>
        /\ PExpireOne.ok /\ PExpireOne.cmd.action = "PExpire"
        /\ \A out \in execute_by_lock(STORE, PExpireOne.cmd, now) :
              out.store.data[kA].expiration = Some([expires_at |-> now + 1])
        /\ ExpireOne.ok /\ ExpireOne.cmd.action = "Expire"
        /\ \A out \in execute_by_lock(STORE, ExpireOne.cmd, now) :
              out.store.data[kA].expiration = Some([expires_at |-> now + MsPerSec])

-----------------------------------------------------------------------------
(* Writing and reading: connection A writes key a, plainly and with NX, XX *)
(* and EX, and removes it; connection B sends SETNX, GET and TTL.          *)

NX == <<"N", "X">>
XX == <<"X", "X">>
EX == <<"E", "X">>

SetNxU == from_resp(SETNX(kA, <<"u">>))
GetA == from_resp(GET(kA))
TtlA == from_resp(TTL(kA))

SetIn(c) ==
    IF c = "A"
    THEN {from_resp(r) : r \in
            {SET(kA, <<"v">>), SET(kA, <<"0", "7">>),
             SETOPT(kA, <<"w">>, <<NX, EX, <<"1">>>>),
             SETOPT(kA, <<"w">>, <<XX>>),
             EXPIRE(kA, <<"-", "1">>)}}
    ELSE {SetNxU, GetA, TtlA}

NextSet ==
    \/ \E c \in Conns : Accept(c)
    \/ \E c \in Conns : \E p \in SetIn(c) : Dispatch(c, p)
    \/ Fire
    \/ Tick

SpecSet == Init /\ [][NextSet]_vars

\* SETNX beside a WATCH: connection A writes, removes and watches key a,
\* connection B sends SETNX.
SetNxIn(c) ==
    IF c = "A"
    THEN {from_resp(r) : r \in
            {SET(kA, <<"v">>), EXPIRE(kA, <<"-", "1">>), WATCH(<<kA>>)}}
    ELSE {SetNxU}

NextSetNx ==
    \/ \E c \in Conns : Accept(c)
    \/ \E c \in Conns : \E p \in SetNxIn(c) : Watch(c, p)
    \/ \E c \in Conns : \E p \in SetNxIn(c) : Dispatch(c, p)
    \/ Tick

SpecSetNx == Init /\ [][NextSetNx]_vars

\* A late timer: connection A arms key a for one second and key b for
\* two, connection B reads key a; no scheduling is assumed, so a timer may
\* get the lock long after its sleep is over.
OverdueIn(c) ==
    IF c = "A"
    THEN {from_resp(r) : r \in
            {SETEX(kA, <<"1">>, <<"v">>), SETEX(kB, <<"2">>, <<"v">>)}}
    ELSE {GetA, TtlA}

NextOverdue ==
    \/ \E c \in Conns : Accept(c)
    \/ \E c \in Conns : \E p \in OverdueIn(c) : Dispatch(c, p)
    \/ Fire
    \/ Tick

SpecOverdue == Init /\ [][NextOverdue]_vars

\* C16: SETNX k v on an absent key stores v, with no expiration, and
\* replies Integer 1; on a present key it replies Integer 0 and leaves the
\* store, the timers and every watch list as they are.
C16_SetNx ==
    [][\A c \in Conns :
          (event'.who = c /\ event'.what = "SetNx" /\ ~event'.in_txn) =>
             IF kA \in DOMAIN STORE.data
             THEN /\ reply'[c] = integer(0)
                  /\ UNCHANGED <<STORE, timers, watch>>
             ELSE /\ reply'[c] = integer(1)
                  /\ kA \in DOMAIN STORE'.data
                  /\ STORE'.data[kA] = [value |-> Value_Str(<<"u">>),
                                        expiration |-> None,
                                        touched_at |-> now]]_vars

\* A SETNX on the present key was refused, and the WATCH that connection A
\* placed on the key after its last write is still not violated.
C16_Witness ==
    /\ Handled("B", "SetNx")
    /\ reply["B"] = integer(0)
    /\ kA \in DOMAIN STORE.data
    /\ watch["A"] # <<>>
    /\ ~WatchedKeyTouched("A")

\* The forms of SET a w, with what they ask for.
SetForms ==
    {[p |-> from_resp(SETOPT(kA, <<"w">>, f.opts)), nx |-> f.nx, xx |-> f.xx,
      ttl |-> f.ttl] : f \in
        {[opts |-> <<>>, nx |-> FALSE, xx |-> FALSE, ttl |-> None],
         [opts |-> <<EX, <<"1">>>>, nx |-> FALSE, xx |-> FALSE, ttl |-> Some(MsPerSec)],
         [opts |-> <<NX>>, nx |-> TRUE, xx |-> FALSE, ttl |-> None],
         [opts |-> <<XX>>, nx |-> FALSE, xx |-> TRUE, ttl |-> None],
         [opts |-> <<NX, EX, <<"1">>>>, nx |-> TRUE, xx |-> FALSE, ttl |-> Some(MsPerSec)],
         [opts |-> <<EX, <<"1">>, XX>>, nx |-> FALSE, xx |-> TRUE, ttl |-> Some(MsPerSec)]}}

\* C17: SET without NX and XX writes and replies OK; with NX it writes
\* and replies Integer 1 only if the key is absent, with XX only if it is
\* present; when it does not write it replies Integer 0, leaves the store
\* as it is and schedules no timer, EX or not.
C17_SetNxXx ==
    \A f \in SetForms :
        /\ f.p.ok
        /\ \A out \in execute_by_lock(STORE, f.p.cmd, now) :
              LET present == kA \in DOMAIN STORE.data
                  writes == \/ ~f.nx /\ ~f.xx
                            \/ f.nx /\ ~present
                            \/ f.xx /\ present
              IN /\ ~out.panic
                 /\ IF writes
                    THEN /\ out.resp = IF f.nx \/ f.xx THEN integer(1) ELSE OK
                         /\ kA \in DOMAIN out.store.data
                         /\ out.store.data[kA].value = Value_Str(<<"w">>)
                         /\ out.store.data[kA].touched_at = now
                         /\ IsSome(f.ttl) =>
                               /\ out.store.data[kA].expiration
                                     = Some([expires_at |-> now + Unwrap(f.ttl)])
                               /\ Len(out.spawned) = 1
                    ELSE /\ out.resp = integer(0)
                         /\ out.store = STORE
                         /\ out.spawned = <<>>

\* A SET with NX and EX was refused: the key keeps the value and the
\* missing expiration it had, and no timer was scheduled.
C17_Witness ==
    /\ Handled("A", "Set")
    /\ reply["A"] = integer(0)
    /\ kA \in DOMAIN STORE.data
    /\ STORE.data[kA].value = Value_Str(<<"u">>)
    /\ STORE.data[kA].expiration = None
    /\ timers = EmptyBag

\* What GET returns for a value a client has SET.
Rendered ==
    [v \in {<<"v">>, <<"0", "7">>, <<"+", "5">>, <<"-", "0">>, <<"-", "3">>,
            <<"1", "x">>, <<"-">>, <<>>} |->
        CASE v = <<"0", "7">> -> <<"7">>
          [] v = <<"+", "5">> -> <<"5">>
          [] v = <<"-", "0">> -> <<"0">>
          [] OTHER -> v]

\* C19: on every store, GET k after SET k v returns the Bulk String of v,
\* in decimal when v is a signed decimal integer and verbatim otherwise;
\* GET of a key that is not in the store, never set or removed since,
\* returns Null, and every GET that is answered says so.
C19_SetThenGet ==
    /\ \A v \in DOMAIN Rendered :
          \A set \in execute_by_lock(STORE, from_resp(SET(kA, v)).cmd, now) :
             /\ ~set.panic
             /\ \A get \in execute_by_lock(set.store, GetA.cmd, now) :
                   get.resp = bulk_string(Rendered[v])
    /\ \A c \in Conns :
          Handled(c, "Get") =>
             /\ kA \notin DOMAIN STORE.data => reply[c] = Null
             /\ kA \in DOMAIN STORE.data => reply[c] \in
                   {bulk_string(x) : x \in {<<"v">>, <<"7">>, <<"w">>, <<"u">>}}

\* The integer that connection A wrote as 07 came back as 7.
C19_Witness ==
    /\ Handled("B", "Get")
    /\ reply["B"] = bulk_string(<<"7">>)
    /\ kA \in DOMAIN STORE.data
    /\ STORE.data[kA].value = Value_Int(7)

\* C20: on every reachable store TTL k replies -2 exactly when GET k
\* replies Null, -1 when k is there with no expiration, and otherwise the
\* whole seconds that remain until expires_at.
C20_TtlAgreesWithGet ==
    \A ttl \in execute_by_lock(STORE, TtlA.cmd, now) :
       \A get \in execute_by_lock(STORE, GetA.cmd, now) :
          /\ ttl.resp = integer(0 - 2) <=> get.resp = Null
          /\ (kA \in DOMAIN STORE.data /\ STORE.data[kA].expiration = None) =>
                ttl.resp = integer(0 - 1)
          /\ (kA \in DOMAIN STORE.data /\ STORE.data[kA].expiration # None) =>
                ttl.resp = integer(whole_seconds(
                    Unwrap(STORE.data[kA].expiration).expires_at - now))

-----------------------------------------------------------------------------
(* Connections: the peers connect, open a transaction and queue a write,   *)
(* hang up or stop reading, and connect again.                             *)

ConnIn(c) ==
    IF c = "A"
    THEN {from_resp(r) : r \in {MULTI, SET(kA, <<"v">>), PING}}
    ELSE {from_resp(r) : r \in {PING, SET(kB, <<"w">>)}}

NextConn ==
    \/ \E c \in Conns : Accept(c)
    \/ \E c \in Conns : Close(c)
    \/ \E c \in Conns : Connect(c)
    \/ \E c \in Conns : \E p \in ConnIn(c) : WriteError(c, p)
    \/ \E c \in Conns : \E p \in ConnIn(c) : Multi(c, p)
    \/ \E c \in Conns : \E p \in ConnIn(c) : Queue(c, p)
    \/ \E c \in Conns : \E p \in ConnIn(c) : Dispatch(c, p)

SpecConn == Init /\ [][NextConn]_vars

\* C21: every id add_client hands out is non-zero and greater than every
\* id handed out before, whatever was opened and closed in between.  The
\* ids handed out so far are those below next_client_id: the counter
\* changes only when a client is registered, the client gets the counter
\* and the counter grows by one.
C21_ClientIdsFresh ==
    /\ [](\A c \in DOMAIN STORE.clients :
             0 < STORE.clients[c] /\ STORE.clients[c] < STORE.next_client_id)
    /\ [][/\ STORE'.next_client_id # STORE.next_client_id => event'.what = "Accept"
          /\ event'.what = "Accept" =>
                /\ STORE'.clients[event'.who] = STORE.next_client_id
                /\ STORE.next_client_id > 0
                /\ STORE'.next_client_id = STORE.next_client_id + 1
                /\ \A d \in DOMAIN STORE.clients :
                      STORE.clients[d] < STORE'.clients[event'.who]]_vars

\* A peer that had hung up is registered again, under an id above those of
\* both earlier connections.
C21_Witness ==
    /\ event.what = "Accept"
    /\ event.who = "A"
    /\ STORE.clients["A"] = 3
    /\ "B" \notin DOMAIN STORE.clients

\* C22: when the dispatcher of a connection ends, by a closed stream or by
\* a write error, its address is no longer registered, its transaction is
\* dropped and none of the queued commands has run.
C22_EndUnregisters ==
    [][\A c \in Conns :
          (event'.who = c /\ event'.what \in {"Close", "WriteError"}) =>
             /\ c \notin DOMAIN STORE'.clients
             /\ transaction'[c] = None
             /\ STORE'.data = STORE.data
             /\ timers' = timers]_vars

\* The steps in which a connection handles a request it has read.
Requests == (Actions \cup {"ParseError"}) \ {"Exec"}

\* C23: every request of a connection that decodes to a RESP value gets
\* exactly one response, the result of the command or the RSP Error of the
\* parse error, before the connection handles its next request: the step
\* that handles the request writes the response and goes back to reading,
\* and an EXEC that replays its queue writes the array when the replay is
\* over and reads nothing in between.
C23_OneResponsePerRequest ==
    [][\A c \in Conns :
          /\ (event'.who = c /\ event'.what \in Requests) =>
                /\ pc[c] = "idle"
                /\ pc'[c] = "idle"
                /\ reply'[c] # NoReply
                /\ event'.what = "ParseError" => reply'[c].t = "Error"
          /\ (event'.who = c /\ event'.what = "Exec") =>
                /\ pc[c] = "idle"
                /\ \/ pc'[c] = "idle" /\ reply'[c] = Null
                   \/ pc'[c] = "exec"
          /\ (event'.who = c /\ event'.what = "ExecStep") =>
                /\ pc[c] = "exec"
                /\ pc'[c] = "exec"
                /\ reply'[c] = reply[c]
          /\ (event'.who = c /\ event'.what = "ExecEnd") =>
                /\ pc[c] = "exec"
                /\ pc'[c] = "idle"
                /\ reply'[c].t = "Array"]_vars

\* C24: no request that is an array of bulk strings makes the dispatcher
\* panic: no connection task dies and the process stays up.
C24_NoPanic ==
    /\ process = "up"
    /\ \A c \in Conns : pc[c] # "dead"

-----------------------------------------------------------------------------
(* One connection sets a key, gives it a TTL, watches it and runs a        *)
(* transaction; the clock may or may not advance between its requests.     *)

S25 ==
    [name |-> "S25",
     rest |-> <<From("A", SET(kA, <<"v">>)), From("A", EXPIRE(kA, <<"1">>)),
                From("A", WATCH(<<kA>>)), From("A", MULTI),
                From("A", GET(kA)), From("A", EXEC)>>]

NextTie ==
    \/ NextScenario
    \/ Fire

SpecTie == InitWith(S25) /\ [][NextTie]_vars

\* C25: EXPIRE k n on an existing key, then WATCH k, MULTI, a queued
\* command and EXEC on the same connection, nobody writing k after the
\* WATCH: the EXEC runs the queue and replies an Array, never Null, also
\* when the EXPIRE and the WATCH read the same time.
C25_ExpireThenWatchExec ==
    (script.name = "S25" /\ script.rest = <<>>) =>
        /\ pc["A"] \in {"exec", "idle"}
        /\ pc["A"] = "idle" => reply["A"].t = "Array"

-----------------------------------------------------------------------------
(* resp/lib.rs: encode and decode.  The wire form of a value is a sequence *)
(* of characters.  A decoder reads from position i of the input s and      *)
(* returns [ok |-> TRUE, val |-> v, next |-> j], j the position after what *)
(* it has read, or [ok |-> FALSE, err |-> e].                              *)

DELIMITER == <<"\r", "\n">>

IncompleteRespError == [ok |-> FALSE, err |-> "IncompleteRespError"]
InvalidRespError == [ok |-> FALSE, err |-> "InvalidRespError"]
Decoded(v, next) == [ok |-> TRUE, val |-> v, next |-> next]

encode_simple_string(value) == <<"+">> \o value.s \o DELIMITER

encode_error(value) == <<"-">> \o value.s \o DELIMITER

encode_bulk_string(value) ==
    <<"$">> \o NatToString(Len(value.s)) \o DELIMITER \o value.s \o DELIMITER

encode_integer(value) == <<":">> \o IntToString(value.i) \o DELIMITER

RECURSIVE encode(_)
RECURSIVE encode_elements(_)
\* the loop of encode_array: the encodings of the elements, one after another
encode_elements(a) ==
    IF a = <<>> THEN <<>> ELSE encode(Head(a)) \o encode_elements(Tail(a))

encode_array(value) ==
    <<"*">> \o NatToString(Len(value.a)) \o DELIMITER \o encode_elements(value.a)

encode(value) ==
    CASE value.t = "SimpleString" -> encode_simple_string(value)
      [] value.t = "BulkString" -> encode_bulk_string(value)
      [] value.t = "Array" -> encode_array(value)
      [] value.t = "Error" -> encode_error(value)
      [] value.t = "Integer" -> encode_integer(value)

\* BufRead::read_line: the characters up to and including the next "\n",
\* or up to the end of the input.
read_line(s, i) ==
    LET ends == {j \in i..Len(s) : s[j] = "\n"}
        last == IF ends = {} THEN Len(s)
                ELSE CHOOSE j \in ends : \A k \in ends : j <= k
    IN [line |-> SubSeq(s, i, last), next |-> last + 1]

ends_with(line, suffix) ==
    /\ Len(line) >= Len(suffix)
    /\ SubSeq(line, Len(line) - Len(suffix) + 1, Len(line)) = suffix

\* str::trim_end: without the white space at the end.
Whitespace == {" ", "\t", "\n", "\r"}

RECURSIVE trim_end(_)
trim_end(str) ==
    IF str # <<>> /\ str[Len(str)] \in Whitespace
    THEN trim_end(SubSeq(str, 1, Len(str) - 1))
    ELSE str

decode_simple_string(s, i) ==
    LET buf == read_line(s, i) IN
    IF ends_with(buf.line, DELIMITER)
    THEN Decoded(simple_string(trim_end(buf.line)), buf.next)
    ELSE IncompleteRespError

decode_error(s, i) ==
    LET buf == read_line(s, i) IN
    IF ends_with(buf.line, DELIMITER)
    THEN Decoded(error(trim_end(buf.line)), buf.next)
    ELSE IncompleteRespError

decode_integer(s, i) ==
    LET buf == read_line(s, i)
        int == ParseI64(trim_end(buf.line))
    IN IF ~ends_with(buf.line, DELIMITER) THEN IncompleteRespError
       ELSE IF ~IsSome(int) THEN InvalidRespError
       ELSE Decoded(integer(Unwrap(int)), buf.next)

read_int_with_clrf(s, i) ==
    LET buf == read_line(s, i)
        int == ParseU64(trim_end(buf.line))
    IN IF ~ends_with(buf.line, DELIMITER) THEN IncompleteRespError
       ELSE IF ~IsSome(int) THEN InvalidRespError
       ELSE Decoded(Unwrap(int), buf.next)

\* A bulk string decoder that takes the payload to end at the first
\* delimiter after the length.
decode_bulk_string_delimited(s, i) ==
    LET byte_count == read_int_with_clrf(s, i) IN
    IF ~byte_count.ok THEN byte_count
    ELSE LET buf == read_line(s, byte_count.next) IN
         IF ends_with(buf.line, DELIMITER)
         THEN Decoded(bulk_string(SubSeq(buf.line, 1, Len(buf.line) - Len(DELIMITER))),
                      buf.next)
         ELSE IncompleteRespError

\* read_exact fails, and the decoder is incomplete, when the input is
\* shorter than the byte count or than the closing delimiter.
decode_bulk_string(s, i) ==
    LET byte_count == read_int_with_clrf(s, i) IN
    IF ~byte_count.ok THEN byte_count
    ELSE LET from == byte_count.next
             to == from + byte_count.val - 1
         IN IF to > Len(s) THEN IncompleteRespError
            ELSE IF to + Len(DELIMITER) > Len(s) THEN IncompleteRespError
            ELSE IF SubSeq(s, to + 1, to + Len(DELIMITER)) # DELIMITER
            THEN IncompleteRespError
            ELSE Decoded(bulk_string(SubSeq(s, from, to)), to + Len(DELIMITER) + 1)

RECURSIVE do_decode(_, _)
RECURSIVE decode_elements(_, _, _, _)
\* the loop of decode_array: count more elements from position i on
decode_elements(s, i, count, resp_array) ==
    IF count = 0 THEN Decoded(array(resp_array), i)
    ELSE LET value == do_decode(s, i) IN
         IF ~value.ok THEN value
         ELSE decode_elements(s, value.next, count - 1, Append(resp_array, value.val))

decode_array(s, i) ==
    LET element_count == read_int_with_clrf(s, i) IN
    IF ~element_count.ok THEN element_count
    ELSE decode_elements(s, element_count.next, element_count.val, <<>>)

do_decode(s, i) ==
    IF i > Len(s) THEN IncompleteRespError
    ELSE CASE s[i] = "+" -> decode_simple_string(s, i + 1)
           [] s[i] = "$" -> decode_bulk_string(s, i + 1)
           [] s[i] = "*" -> decode_array(s, i + 1)
           [] s[i] = "-" -> decode_error(s, i + 1)
           [] s[i] = ":" -> decode_integer(s, i + 1)
           [] OTHER -> InvalidRespError

\* decode: Ok(value), or the error; what follows the value is not read.
decode(s) ==
    LET r == do_decode(s, 1) IN
    IF r.ok THEN [ok |-> TRUE, val |-> r.val] ELSE r

\* connection_loop reads the stream line by line and decodes what it has
\* read so far after every line, until the decoder is no longer
\* incomplete: the result for the wire form s, incomplete when no line
\* completes a value.
read_request(s) ==
    LET ends == {j \in 1..Len(s) : s[j] = "\n"}
        done == {j \in ends : decode(SubSeq(s, 1, j)) # IncompleteRespError}
    IN IF done = {} THEN IncompleteRespError
       ELSE decode(SubSeq(s, 1, CHOOSE j \in done : \A k \in done : j <= k))

\* Connection c reads the wire form of the RESP value v and handles what
\* it decodes.
Receive(c, v) ==
    LET value == read_request(encode(v)) IN
    /\ value.ok
    /\ \/ ParseError(c, from_resp(value.val))
       \/ Dispatch(c, from_resp(value.val))

-----------------------------------------------------------------------------
(* The wire: the peers send ECHO and PING with messages over a small       *)
(* alphabet that has a space, as bulk strings and as simple strings, and   *)
(* values that are no commands.                                            *)

Messages ==
    {<<>>, <<"a">>, <<" ">>, <<"a", "a">>, <<"a", " ">>, <<" ", "a">>}

WireIn ==
    {array(<<bulk_string(<<"E", "C", "H", "O">>), x>>) :
        x \in {bulk_string(m) : m \in Messages} \cup
              {simple_string(m) : m \in Messages}}
    \cup {PING, integer(10), simple_string(<<"a">>)}

NextWire ==
    \/ \E c \in Conns : Accept(c)
    \/ \E c \in Conns : \E v \in WireIn : Receive(c, v)
    \/ \E c \in Conns : Close(c)

SpecWire == Init /\ [][NextWire]_vars

\* The RESP values of the round trip: strings over the alphabet, some
\* integers, and arrays of them, one of them nested.
Scalars ==
    {simple_string(m) : m \in Messages} \cup {error(m) : m \in Messages}
    \cup {bulk_string(m) : m \in Messages}
    \cup {integer(i) : i \in {0 - 12, 0, 7, 10}}

RespValues ==
    Scalars \cup {array(<<>>)} \cup {array(<<x>>) : x \in Scalars}
    \cup {array(<<x, y>>) : x, y \in
             {bulk_string(<<"a">>), bulk_string(<<" ">>), integer(7),
              simple_string(<<"a", "a">>), error(<<>>)}}
    \cup {array(<<array(<<x>>), x>>) : x \in Scalars}

\* The values on the wire: those the peers may send and the responses the
\* server has written.
OnTheWire ==
    RespValues \cup
    {reply[c] : c \in {x \in Conns : reply[x].t \in
                         {"SimpleString", "Error", "Integer", "BulkString", "Array"}}}

\* C26: decode(encode(v)) is Ok(v) for every RESP value v.
C26_RoundTrip ==
    \A v \in OnTheWire : decode(encode(v)) = [ok |-> TRUE, val |-> v]

\* C27: EXEC and DISCARD on a connection with no open transaction reply
\* Null and change nothing: not the store, not the timers, not the
\* connection's transaction, which stays absent, nor its watch list.
C27_ExecDiscardOutside ==
    [][\A c \in Conns :
          (event'.who = c /\ event'.what \in {"Exec", "Discard"} /\ ~event'.in_txn) =>
             /\ reply'[c] = Null
             /\ STORE' = STORE
             /\ timers' = timers
             /\ transaction[c] = None
             /\ transaction'[c] = None
             /\ watch'[c] = watch[c]
             /\ pc'[c] = "idle"]_vars

\* An EXEC with no transaction open, on a connection that watches a key
\* of the store.
C27_Witness ==
    /\ Handled("A", "Exec")
    /\ ~event.in_txn
    /\ reply["A"] = Null
    /\ watch["A"] # <<>>
    /\ kA \in DOMAIN STORE.data

\* C28: MULTI inside an open transaction replies OK and leaves the queue
\* as it is; outside one it opens an empty transaction; in both cases the
\* watch list and the store stay as they are.
C28_MultiNoNesting ==
    [][\A c \in Conns :
          (event'.who = c /\ event'.what = "Multi") =>
             /\ reply'[c] = OK
             /\ watch'[c] = watch[c]
             /\ STORE' = STORE
             /\ event'.in_txn => transaction'[c] = transaction[c]
             /\ ~event'.in_txn => transaction'[c] = Some(Transaction_new)]_vars

\* A MULTI on a connection that watches a key and has a command queued.
C28_Witness ==
    /\ Handled("A", "Multi")
    /\ event.in_txn
    /\ event.queued > 0
    /\ watch["A"] # <<>>
    /\ transaction["A"] # None
    /\ Len(Unwrap(transaction["A"]).queue) = event.queued

-----------------------------------------------------------------------------
(* Watching: connection A watches one key or two, unwatches, opens a       *)
(* transaction and queues a write; connection B writes the key.            *)

WatchIn(c) ==
    IF c = "A"
    THEN {from_resp(r) : r \in
            {WATCH(<<kA>>), WATCH(<<kA, kB>>), UNWATCH, MULTI, SET(kA, <<"w">>)}}
    ELSE {from_resp(r) : r \in {SET(kA, <<"v">>)}}

NextWatch ==
    \/ \E c \in Conns : Accept(c)
    \/ \E c \in Conns : \E p \in WatchIn(c) : Watch(c, p)
    \/ \E c \in Conns : \E p \in WatchIn(c) : Unwatch(c, p)
    \/ \E c \in Conns : \E p \in WatchIn(c) : Multi(c, p)
    \/ \E c \in Conns : \E p \in WatchIn(c) : Queue(c, p)
    \/ \E c \in Conns : \E p \in WatchIn(c) : Dispatch(c, p)
    \/ Tick

SpecWatch == Init /\ [][NextWatch]_vars

\* C29: WATCH k1..kn replies OK and appends (k1, now) .. (kn, now) to the
\* watch list of the connection, after the entries it had; UNWATCH replies
\* OK and empties the watch list; both leave the transaction of the
\* connection, its queue and the store as they are.
C29_WatchAppendsUnwatchClears ==
    [][\A c \in Conns :
          /\ (event'.who = c /\ event'.what = "Watch") =>
                /\ reply'[c] = OK
                /\ \E keys \in {<<kA>>, <<kA, kB>>} :
                      watch'[c] = watch[c] \o
                         [i \in 1..Len(keys) |-> [key |-> keys[i], watch_start |-> now]]
                /\ transaction' = transaction
                /\ STORE' = STORE
          /\ (event'.who = c /\ event'.what = "Unwatch") =>
                /\ reply'[c] = OK
                /\ watch'[c] = <<>>
                /\ transaction' = transaction
                /\ STORE' = STORE]_vars

\* A second WATCH, later than the first and inside a transaction with a
\* queued command, has added its entry behind the earlier one.
C29_Witness ==
    /\ Handled("A", "Watch")
    /\ Len(watch["A"]) = 2
    /\ watch["A"][1].watch_start < watch["A"][2].watch_start
    /\ watch["A"][2].watch_start = now
    /\ event.in_txn
    /\ event.queued > 0

-----------------------------------------------------------------------------
(* SET with options: connection A sends SET a w followed by up to three    *)
(* tokens, option names and TTL values, in every order.                    *)

PX == <<"P", "X">>

\* The tokens: the option names, a TTL, a negative number, a word.
OptTokens == {NX, XX, EX, PX, KEEPTTL, <<"1">>, <<"-", "1">>, <<"x">>}

OptSeqs == UNION {[1..n -> OptTokens] : n \in 0..MaxOpts}

SetOptRequests == {from_resp(SETOPT(kA, <<"w">>, opts)) : opts \in OptSeqs}

SetOptIn(c) ==
    IF c = "A" THEN SetOptRequests ELSE {from_resp(SET(kA, <<"v">>))}

NextSetOpt ==
    \/ \E c \in Conns : Accept(c)
    \/ \E c \in Conns : \E p \in SetOptIn(c) : ParseError(c, p)
    \/ \E c \in Conns : \E p \in SetOptIn(c) : Dispatch(c, p)
    \/ Fire
    \/ Tick

SpecSetOpt == Init /\ [][NextSetOpt]_vars

\* Token i of opts stands where an option is read: it is the first, or
\* the one before it is not an EX or PX that takes it as its value.
RECURSIVE IsOption(_, _)
IsOption(opts, i) ==
    \/ i = 1
    \/ ~(IsOption(opts, i - 1) /\ opts[i - 1] \in {EX, PX})

\* A decimal number without a sign.
IsUnsigned(str) == str # <<>> /\ \A j \in 1..Len(str) : IsDigit(str[j])

\* What is wrong with opts: an EX or PX that is the last token, an EX or
\* PX whose value is no unsigned integer, NX together with XX.
TtlMissing(opts) ==
    \E i \in 1..Len(opts) : IsOption(opts, i) /\ opts[i] \in {EX, PX} /\ i = Len(opts)

TtlInvalid(opts) ==
    \E i \in 1..(Len(opts) - 1) :
        IsOption(opts, i) /\ opts[i] \in {EX, PX} /\ ~IsUnsigned(opts[i + 1])

NxWithXx(opts) ==
    \E i, j \in 1..Len(opts) :
        IsOption(opts, i) /\ IsOption(opts, j) /\ opts[i] = NX /\ opts[j] = XX

\* The options opts names, when nothing is wrong with it.
Recognised(opts) ==
    {SetNx : i \in {j \in 1..Len(opts) : IsOption(opts, j) /\ opts[j] = NX}}
    \cup {SetXx : i \in {j \in 1..Len(opts) : IsOption(opts, j) /\ opts[j] = XX}}
    \cup {SetKeepTtl : i \in {j \in 1..Len(opts) : IsOption(opts, j) /\ opts[j] = KEEPTTL}}
    \cup {SetEx(Unwrap(ParseDigits(opts[i + 1], 0))) :
            i \in {j \in 1..(Len(opts) - 1) : IsOption(opts, j) /\ opts[j] = EX}}
    \cup {SetPx(Unwrap(ParseDigits(opts[i + 1], 0))) :
            i \in {j \in 1..(Len(opts) - 1) : IsOption(opts, j) /\ opts[j] = PX}}

\* The parse of SET a w opts is what opts asks for.
Conforms(opts) ==
    LET p == from_resp(SETOPT(kA, <<"w">>, opts))
        syntax == TtlMissing(opts) \/ NxWithXx(opts)
        ttl == TtlInvalid(opts)
    IN /\ (syntax /\ ~ttl) =>
             ~p.ok /\ p.err = ParseCommandError_new("SyntaxError", Some("Set"))
       /\ (ttl /\ ~syntax) =>
             ~p.ok /\ p.err = ParseCommandError_new("InvalidTtl", Some("Set"))
       /\ (ttl /\ syntax) =>
             ~p.ok /\ p.err \in
                {ParseCommandError_new("SyntaxError", Some("Set")),
                 ParseCommandError_new("InvalidTtl", Some("Set"))}
       /\ (~ttl /\ ~syntax) =>
             /\ p.ok
             /\ p.cmd = [action |-> "Set", args |-> <<kA, <<"w">>>>,
                         lock |-> Some("Write"), opts |-> Recognised(opts)]

NonConforming == {opts \in OptSeqs : ~Conforms(opts)}

\* C30: SET k v with options.  NX together with XX, in either order, is a
\* SyntaxError, and so is an EX or PX that is the last token; an EX or PX
\* followed by a negative number or by a word is an InvalidTtl for set;
\* when several of these are wrong the error is one of theirs; when none
\* is, the result is the command Set with args [k, v], lock Write and
\* exactly the options that were named.  A connection that reads such a
\* request answers with the text of that error, or executes the command.
C30_ParseSetOptions ==
    /\ (\E c \in Conns : pc[c] = "idle") => NonConforming = {}
    /\ \A c \in Conns :
          Handled(c, "ParseError") =>
             reply[c] \in
                {error(ParseCommandError_fmt(ParseCommandError_new(k, Some("Set")))) :
                    k \in {"SyntaxError", "InvalidTtl"}}

\* The connection has answered a SET that names NX and XX with the text
\* of the syntax error.
C30_Witness ==
    /\ Handled("A", "ParseError")
    /\ reply["A"] = error(<<"E", "R", "R", " ", "s", "y", "n", "t", "a", "x", " ",
                           "e", "r", "r", "o", "r">>)
    /\ kA \in DOMAIN STORE.data

-----------------------------------------------------------------------------
(* Argument counts: the peers send every command that has a fixed number   *)
(* of arguments with none, one, two, three and four arguments.             *)

\* The fewest and the most arguments each of these commands takes.
Arity ==
    [Ping |-> <<0, 1>>, Echo |-> <<1, 1>>, Get |-> <<1, 1>>, Ttl |-> <<1, 1>>,
     SetEx |-> <<3, 3>>, SetNx |-> <<2, 2>>, Expire |-> <<2, 2>>,
     PExpire |-> <<2, 2>>, Multi |-> <<0, 0>>, Exec |-> <<0, 0>>,
     Discard |-> <<0, 0>>, Unwatch |-> <<0, 0>>]

\* The command a with n arguments, each of them the string 1.
WithArgs(a, n) == Req(<<ActionName[a]>> \o [i \in 1..n |-> <<"1">>])

ArityRequests ==
    {from_resp(WithArgs(a, n)) : a \in DOMAIN Arity, n \in 0..MaxArgs}

NextArity ==
    \/ \E c \in Conns : Accept(c)
    \/ \E c \in Conns : \E p \in ArityRequests : ParseError(c, p)
    \/ \E c \in Conns : \E p \in ArityRequests : Dispatch(c, p)
    \/ \E c \in Conns : Close(c)

SpecArity == Init /\ [][NextArity]_vars

\* The text of the error for action a.
WrongNumberText(a) ==
    <<"E", "R", "R", " ", "w", "r", "o", "n", "g", " ", "n", "u", "m", "b", "e",
      "r", " ", "o", "f", " ", "a", "r", "g", "u", "m", "e", "n", "t", "s", " ",
      "f", "o", "r", " ", "'">> \o ActionName[a] \o
    <<"'", " ", "c", "o", "m", "m", "a", "n", "d">>

\* The commands and argument counts whose rejection is not the wrong
\* number of arguments of the command that was sent.
ArityFaults ==
    {<<a, n>> \in (DOMAIN Arity) \X (0..MaxArgs) :
        /\ n < Arity[a][1] \/ n > Arity[a][2]
        /\ LET p == from_resp(WithArgs(a, n)) IN
           ~(/\ ~p.ok
             /\ p.err = ParseCommandError_new("WrongNumberArgs", Some(a))
             /\ ParseCommandError_fmt(p.err) = WrongNumberText(a))}

\* C31: a command with more arguments than its maximum, or fewer than it
\* requires, is rejected with WrongNumberArgs of its own action, and a
\* connection answers it with the error text that names that action.
C31_WrongNumberArgs ==
    /\ (\E c \in Conns : pc[c] = "idle") => ArityFaults = {}
    /\ \A c \in Conns :
          Handled(c, "ParseError") =>
             reply[c] \in {error(WrongNumberText(a)) : a \in DOMAIN Arity}

-----------------------------------------------------------------------------
(* Frames: the peers send ECHO with payloads that hold the delimiter, and  *)
(* the connection decodes what it has read after every line.               *)

Payloads ==
    {<<"a", "b">>, <<"\r", "\n">>, <<"b", "\n">>, <<"a", "\r", "\n", "b">>}

FrameIn ==
    {array(<<bulk_string(<<"E", "C", "H", "O">>), bulk_string(m)>>) : m \in Payloads}
    \cup {PING, integer(10)}

NextFrame ==
    \/ \E c \in Conns : Accept(c)
    \/ \E c \in Conns : \E v \in FrameIn : Receive(c, v)
    \/ \E c \in Conns : Close(c)

SpecFrame == Init /\ [][NextFrame]_vars

\* The values whose frames are cut: those of the round trip, the bulk
\* strings that hold the delimiter, and the requests that carry them.
FrameValues ==
    RespValues \cup {bulk_string(m) : m \in Payloads} \cup FrameIn

\* The values with a proper prefix of their encoding that does not decode
\* as incomplete.
PrefixFaults ==
    {v \in FrameValues :
        \E n \in 0..(Len(encode(v)) - 1) :
            decode(SubSeq(encode(v), 1, n)) # IncompleteRespError}

\* The payloads that do not come back whole from their bulk string.
PayloadFaults ==
    {m \in Payloads :
        decode(encode(bulk_string(m))) # [ok |-> TRUE, val |-> bulk_string(m)]}

\* C32: every proper prefix of the encoding of a RESP value, the empty one
\* too, decodes as IncompleteRespError; a bulk string whose payload holds
\* CRLF decodes to the whole payload, and the connection that reads it in
\* an ECHO answers with the whole payload.
C32_PrefixesIncomplete ==
    /\ (\E c \in Conns : pc[c] = "idle") =>
          PrefixFaults = {} /\ PayloadFaults = {}
    /\ \A c \in Conns :
          Handled(c, "Echo") => reply[c] \in {bulk_string(m) : m \in Payloads}

\* The connection has echoed a payload with the delimiter in its middle.
C32_Witness ==
    /\ Handled("A", "Echo")
    /\ reply["A"] = bulk_string(<<"a", "\r", "\n", "b">>)

-----------------------------------------------------------------------------
(* Locking: connection A runs a transaction while connection B reads,      *)
(* writes, pings and hangs up, and the timers fire.                        *)

LockIn(c) ==
    IF c = "A"
    THEN {from_resp(r) : r \in {MULTI, EXEC, SET(kA, <<"w">>)}}
    ELSE {from_resp(r) : r \in {GET(kA), PING, SETEX(kA, <<"1">>, <<"v">>)}}

NextLock ==
    \/ \E c \in Conns : Accept(c)
    \/ \E c \in Conns : Close(c)
    \/ \E c \in Conns : \E p \in LockIn(c) : Multi(c, p)
    \/ \E c \in Conns : \E p \in LockIn(c) : Queue(c, p)
    \/ \E c \in Conns : \E p \in LockIn(c) : Exec(c, p)
    \/ \E c \in Conns : ExecStep(c)
    \/ \E c \in Conns : ExecEnd(c)
    \/ \E c \in Conns : \E p \in LockIn(c) : Dispatch(c, p)
    \/ Fire
    \/ Tick

SpecLock == Init /\ [][NextLock]_vars

\* C33: the write lock is held by the one connection that is replaying a
\* transaction, or by nobody; the store changes only in a step of a task
\* that holds the write lock or takes it while it is free; a GET or TTL
\* outside a transaction and a timer run only while nobody holds the write
\* lock; the lock passes from one task to another only by being released;
\* PING and ECHO run whoever holds the lock and leave the store alone.
C33_LockingDiscipline ==
    /\ [](\A c \in Conns : pc[c] = "exec" <=> writer = Some(c))
    /\ [][/\ STORE' # STORE => writer \in {None, Some(event'.who)}
          /\ event'.who = "timer" => writer = None
          /\ writer' # writer => (writer = None \/ writer' = None)
          /\ event'.who \in Conns =>
                /\ (event'.what \in {"Get", "Ttl"} /\ ~event'.in_txn)
                      => writer = None
                /\ event'.what \in {"Accept", "Close"} => writer = None
                /\ event'.what \in {"Ping", "Echo"} =>
                      STORE' = STORE /\ writer' = writer]_vars

\* Connection B got its PONG while connection A was replaying its queue
\* under the write lock.
C33_Witness ==
    /\ Handled("B", "Ping")
    /\ reply["B"] = PONG
    /\ pc["A"] = "exec"
    /\ writer = Some("A")
    /\ running["A"] # <<>>

-----------------------------------------------------------------------------
(* The receive buffer: connection_loop reads the stream one line at a      *)
(* time, appends the line to string_buf and decodes the whole buffer.      *)

\* connection_loop's match on the command parsed from a decoded value.
Handle(c, p) ==
    \/ ParseError(c, p)
    \/ Multi(c, p)
    \/ Exec(c, p)
    \/ Discard(c, p)
    \/ Watch(c, p)
    \/ Unwatch(c, p)
    \/ Queue(c, p)
    \/ Dispatch(c, p)

\* A loop that keeps the buffer it could not decode.
ReadLine_keeping(c, line) ==
    /\ process = "up"
    /\ pc[c] = "idle"
    /\ LET buf == string_buf[c] \o line
           value == decode(buf)
       IN IF value.ok
          THEN Handle(c, from_resp(value.val))
          ELSE /\ string_buf' = [string_buf EXCEPT ![c] = buf]
               /\ event' = Event(c, IF value = IncompleteRespError
                                    THEN "Incomplete" ELSE "Invalid")
               /\ UNCHANGED <<STORE, writer, now, pc, transaction, watch, running,
                              results, reply, timers, process, script>>

\* One turn of the loop of connection_loop: read_line appends a line to the
\* buffer; a decoded value is handled, answered and the buffer cleared; an
\* incomplete buffer is kept for the next line; any other buffer is
\* cleared without a response.
ReadLine(c, line) ==
    /\ process = "up"
    /\ pc[c] = "idle"
    /\ LET buf == string_buf[c] \o line
           value == decode(buf)
       IN IF value.ok
          THEN Handle(c, from_resp(value.val))
          ELSE /\ string_buf' = [string_buf EXCEPT ![c] =
                                    IF value = IncompleteRespError THEN buf ELSE <<>>]
               /\ event' = Event(c, IF value = IncompleteRespError
                                    THEN "Incomplete" ELSE "Invalid")
               /\ UNCHANGED <<STORE, writer, now, pc, transaction, watch, running,
                              results, reply, timers, process, script>>

\* The lines of the wire form s: it is cut after every line feed.
RECURSIVE lines(_)
lines(s) ==
    IF s = <<>> THEN {}
    ELSE LET l == read_line(s, 1) IN
         {l.line} \cup lines(SubSeq(s, l.next, Len(s)))

\* The frames the peer sends, each of them line by line: the wire forms of
\* commands, and frames that are not RESP: a payload without its header, a
\* bulk string whose length is no number, an array whose second element is
\* a bare word.
LineCommands == {MULTI, EXEC, PING, WATCH(<<kA>>)}

Junk ==
    {<<"P", "I", "N", "G", "\r", "\n">>,
     <<"*", "1", "\r", "\n", "$", "x", "\r", "\n">>,
     <<"*", "2", "\r", "\n", "$", "4", "\r", "\n", "P", "I", "N", "G", "\r", "\n",
       "h", "\r", "\n">>}

Frames == {encode(r) : r \in LineCommands} \cup Junk

IsPrefix(s, f) == Len(s) <= Len(f) /\ SubSeq(f, 1, Len(s)) = s

\* The peer goes on with the frame it is sending, or starts a frame, and
\* the connection reads the next line of it.
ReadNext(c) ==
    \E f \in Frames : \E line \in lines(f) :
        /\ IsPrefix(string_buf[c] \o line, f)
        /\ ReadLine(c, line)

NextLine ==
    \/ Accept("A")
    \/ ReadNext("A")
    \/ ExecStep("A")
    \/ ExecEnd("A")
    \/ Close("A")

SpecLine == Init /\ [][NextLine]_vars

\* The commands that are not decoded as themselves when their wire form
\* is read line by line into an empty buffer.
Misread == {r \in LineCommands : read_request(encode(r)) # [ok |-> TRUE, val |-> r]}

\* C34: a step that finds the buffer invalid empties it, writes no
\* response and leaves the connection open with its transaction, its watch
\* list and the store as they were; a well-formed command read into the
\* emptied buffer is decoded as itself; a buffer that is kept between reads
\* is one the decoder finds incomplete, and keeping it writes no response;
\* after every other step of the connection the buffer is empty.
C34_InvalidBufferCleared ==
    /\ [](\A c \in Conns :
            /\ string_buf[c] # <<>> =>
                  pc[c] = "idle" /\ decode(string_buf[c]) = IncompleteRespError
            /\ Handled(c, "Invalid") => Misread = {})
    /\ [][\A c \in Conns : event'.who = c =>
            /\ event'.what = "Invalid" =>
                  /\ string_buf'[c] = <<>>
                  /\ pc'[c] = "idle"
                  /\ UNCHANGED <<reply, transaction, watch, STORE, timers>>
            /\ event'.what = "Incomplete" =>
                  /\ string_buf'[c] # <<>>
                  /\ UNCHANGED <<reply, transaction, watch, STORE, timers>>
            /\ event'.what \notin {"Invalid", "Incomplete"} =>
                  string_buf'[c] = <<>>]_vars

\* Connection A, in a transaction with a queued command and a watched key,
\* has just dropped an invalid buffer.
C34_Witness ==
    /\ Handled("A", "Invalid")
    /\ string_buf["A"] = <<>>
    /\ pc["A"] = "idle"
    /\ transaction["A"] # None
    /\ Len(Unwrap(transaction["A"]).queue) = 1
    /\ watch["A"] # <<>>

-----------------------------------------------------------------------------
(* Requests that do not parse: connection A sends them inside and outside  *)
(* a transaction, among the commands it queues and executes.               *)

ParseIn(c) ==
    IF c = "A"
    THEN {from_resp(r) : r \in
            {MULTI, EXEC, SET(kA, <<"w">>), GET(kA),
             Req(<<<<"G", "E", "T">>>>), Req(<<<<"F", "O", "O">>>>),
             bulk_string(<<"G", "E", "T">>)}}
    ELSE {from_resp(r) : r \in {SET(kA, <<"v">>)}}

NextParse ==
    \/ \E c \in Conns : Accept(c)
    \/ \E c \in Conns : \E p \in ParseIn(c) : ParseError(c, p)
    \/ \E c \in Conns : \E p \in ParseIn(c) : Multi(c, p)
    \/ \E c \in Conns : \E p \in ParseIn(c) : Queue(c, p)
    \/ \E c \in Conns : \E p \in ParseIn(c) : Exec(c, p)
    \/ \E c \in Conns : ExecStep(c)
    \/ \E c \in Conns : ExecEnd(c)
    \/ \E c \in Conns : \E p \in ParseIn(c) : Dispatch(c, p)

SpecParse == Init /\ [][NextParse]_vars

\* C35: a request that does not parse is answered with an Error and
\* changes nothing but the response: inside a transaction the transaction
\* stays open with the queue it had; no open transaction has its error
\* flag set; and an EXEC that starts the replay runs exactly the commands
\* of the queue, in their order.
C35_ParseErrorKeepsQueue ==
    /\ [](\A c \in Conns :
            transaction[c] # None => ~Unwrap(transaction[c]).error)
    /\ [][\A c \in Conns : event'.who = c =>
            /\ event'.what = "ParseError" =>
                  /\ reply'[c].t = "Error"
                  /\ transaction'[c] = transaction[c]
                  /\ pc'[c] = "idle"
                  /\ UNCHANGED <<STORE, watch, running, results, timers, writer>>
            /\ (event'.what = "Exec" /\ pc'[c] = "exec") =>
                  running'[c] = Unwrap(transaction[c]).queue]_vars

\* Connection A, in a transaction with one command queued, has just been
\* answered with an Error and still has that queue.
C35_Witness ==
    /\ Handled("A", "ParseError")
    /\ event.in_txn
    /\ event.queued = 1
    /\ reply["A"].t = "Error"
    /\ transaction["A"] # None
    /\ Len(Unwrap(transaction["A"]).queue) = 1

-----------------------------------------------------------------------------
(* The commands the dispatcher handles itself: connection A sends them     *)
(* inside and outside a transaction, connection B touches the watched key. *)

SpecialIn(c) ==
    IF c = "A"
    THEN {from_resp(r) : r \in
            {MULTI, EXEC, DISCARD, WATCH(<<kA>>), UNWATCH, SET(kA, <<"w">>),
             GET(kA)}}
    ELSE {from_resp(r) : r \in {SET(kA, <<"v">>)}}

NextSpecial ==
    \/ \E c \in Conns : Accept(c)
    \/ \E c \in Conns : \E p \in SpecialIn(c) : Multi(c, p)
    \/ \E c \in Conns : \E p \in SpecialIn(c) : Exec(c, p)
    \/ \E c \in Conns : ExecStep(c)
    \/ \E c \in Conns : ExecEnd(c)
    \/ \E c \in Conns : \E p \in SpecialIn(c) : Discard(c, p)
    \/ \E c \in Conns : \E p \in SpecialIn(c) : Watch(c, p)
    \/ \E c \in Conns : \E p \in SpecialIn(c) : Unwatch(c, p)
    \/ \E c \in Conns : \E p \in SpecialIn(c) : Queue(c, p)
    \/ \E c \in Conns : \E p \in SpecialIn(c) : Dispatch(c, p)

SpecSpecial == Init /\ [][NextSpecial]_vars

\* The queue of c's open transaction, empty when there is none.
QueueOf(c) == IF transaction[c] = None THEN <<>> ELSE Unwrap(transaction[c]).queue

\* C36: no queue and no replay holds MULTI, EXEC, DISCARD, WATCH or
\* UNWATCH; a WATCH or an UNWATCH inside an open transaction changes the
\* watch list in that step, replies OK and leaves the queue as it is; the
\* queue grows by one command exactly in the steps that reply QUEUED, a
\* MULTI that opens a transaction opens it with an empty queue, an EXEC
\* that starts the replay replays the queue, every step of the replay moves
\* one command to one result, and the Array replied at its end holds the
\* results: as many elements as QUEUED replies were sent since MULTI.
C36_SpecialsNotQueued ==
    /\ [](\A c \in Conns :
            /\ \A i \in DOMAIN QueueOf(c) :
                  QueueOf(c)[i].action \notin
                      {"Multi", "Exec", "Discard", "Watch", "Unwatch"}
            /\ \A i \in DOMAIN running[c] :
                  running[c][i].action \notin
                      {"Multi", "Exec", "Discard", "Watch", "Unwatch"})
    /\ [][\A c \in Conns : event'.who = c =>
            /\ (event'.what = "Watch" /\ event'.in_txn) =>
                  /\ reply'[c] = OK
                  /\ Len(watch'[c]) > Len(watch[c])
                  /\ transaction'[c] = transaction[c]
            /\ (event'.what = "Unwatch" /\ event'.in_txn) =>
                  /\ reply'[c] = OK
                  /\ watch'[c] = <<>>
                  /\ transaction'[c] = transaction[c]
            /\ (event'.what = "Multi" /\ ~event'.in_txn) =>
                  transaction'[c] # None /\ QueueOf(c)' = <<>>
            /\ (transaction[c] # None /\ transaction'[c] # None) =>
                  IF reply'[c] = QUEUED /\ event'.what \notin {"ExecStep", "ExecEnd"}
                  THEN Len(QueueOf(c)') = Len(QueueOf(c)) + 1
                  ELSE QueueOf(c)' = QueueOf(c)
            /\ (event'.what = "Exec" /\ pc'[c] = "exec") =>
                  running'[c] = QueueOf(c) /\ results'[c] = <<>>
            /\ (event'.what = "ExecStep" /\ pc'[c] = "exec") =>
                  /\ Len(running'[c]) = Len(running[c]) - 1
                  /\ Len(results'[c]) = Len(results[c]) + 1
            /\ event'.what = "ExecEnd" =>
                  /\ running[c] = <<>>
                  /\ reply'[c] = array(results[c])]_vars

\* Connection A, with one command queued, has just been answered OK to a
\* WATCH that is on its watch list, and the queue still has the one command.
C36_Witness ==
    /\ Handled("A", "Watch")
    /\ event.in_txn
    /\ event.queued = 1
    /\ reply["A"] = OK
    /\ Len(QueueOf("A")) = 1
    /\ watch["A"] # <<>>

-----------------------------------------------------------------------------
(* Lock holds: connection A writes a key in transactions, connection B     *)
(* sets it with a TTL, and the timers wake up.                             *)

HoldIn(c) ==
    IF c = "A"
    THEN {from_resp(r) : r \in {MULTI, EXEC, SET(kA, <<"w">>)}}
    ELSE {from_resp(r) : r \in {SETEX(kA, <<"1">>, <<"v">>)}}

NextHold ==
    \/ \E c \in Conns : Accept(c)
    \/ \E c \in Conns : \E p \in HoldIn(c) : Multi(c, p)
    \/ \E c \in Conns : \E p \in HoldIn(c) : Queue(c, p)
    \/ \E c \in Conns : \E p \in HoldIn(c) : Exec(c, p)
    \/ \E c \in Conns : ExecStep(c)
    \/ \E c \in Conns : ExecEnd(c)
    \/ \E c \in Conns : \E p \in HoldIn(c) : Dispatch(c, p)
    \/ Fire
    \/ Tick

SpecHold == Init /\ [][NextHold]_vars

\* Fair scheduling.  The executor runs a task that can run: the replay of
\* a transaction waits for nothing, so it goes on to its end; and a timer
\* task that asks for the write lock gets it once the lock is free again
\* and again.  What the clients send, and whether they send or read at
\* all, is left to them.
SpecHoldFair ==
    /\ SpecHold
    /\ \A c \in Conns : WF_vars(ExecStep(c)) /\ WF_vars(ExecEnd(c))
    /\ SF_vars(Fire)

\* The timers that can be spawned, and how many of a kind are asleep or
\* waiting for the lock.
LockTimers ==
    {create_expiration_task(MsPerSec, kA, n * TickMs) : n \in 0..MaxTicks}

Copies(tm) == IF tm \in BagToSet(timers) THEN CopiesIn(tm, timers) ELSE 0

\* C37: the write lock is held only by a connection that is inside the
\* replay of its transaction, never by one that waits in read_line or has
\* written its response, and never by a timer asleep; the holder always has
\* a step to take that needs nothing from a client or the clock; so every
\* hold ends, and a timer that is awake and asks for the lock gets it and
\* is done.
C37_LockHoldsEnd ==
    /\ [](\A c \in Conns :
            writer = Some(c) =>
               /\ pc[c] = "exec"
               /\ ENABLED (ExecStep(c) \/ ExecEnd(c)))
    /\ [](writer # None => \E c \in Conns : writer = Some(c))
    /\ (writer # None) ~> (writer = None)
    /\ \A tm \in LockTimers : \A n \in 1..MaxTimers :
          (now >= tm.wake_at /\ Copies(tm) = n) ~> (Copies(tm) < n)

\* A timer is awake and asks for the lock while connection A holds it for
\* the replay of its transaction.
C37_Witness ==
    /\ writer = Some("A")
    /\ pc["A"] = "exec"
    /\ running["A"] # <<>>
    /\ \E tm \in BagToSet(timers) : now >= tm.wake_at

====
